---- MODULE Spec2Model ----
(***************************************************************************)
(* Model of the crossword generation core of lesmotsdatche:                *)
(*   generator/grid_builder.py  GridBuilder (word-first grid construction) *)
(*   generator/solver.py        Solver (slot discovery, CSP fill)          *)
(*   generator/orchestrator.py  answer extraction                         *)
(* Words are sequences of one-letter strings (Python str indexed from 0    *)
(* is read as word[i + 1]).  Grids are functions on 0..rows-1 and          *)
(* 0..cols-1, as the Python lists of lists are.                            *)
(***************************************************************************)
EXTENDS Integers, Sequences, FiniteSets, TLC

\* ------------------------------------------------------------------------
\* Generic helpers
\* ------------------------------------------------------------------------

\* Python's None where a record (or a list of them) is expected, where a
\* letter is expected and where a word is expected.
None == [none |-> TRUE]
NoLetter == ""
NoWord == << >>

Max(a, b) == IF a >= b THEN a ELSE b
Min(a, b) == IF a <= b THEN a ELSE b
Abs(a) == IF a >= 0 THEN a ELSE 0 - a

\* Concatenation of a sequence of sequences, in order.
RECURSIVE Flatten(_)
Flatten(ss) == IF ss = << >> THEN << >> ELSE Head(ss) \o Flatten(Tail(ss))

\* list.sort(key=...) / sorted(key=...): stable, ascending in the key.
\* keys[i] is the key of s[i]; element i lands after every element with a
\* smaller key and after the earlier elements with an equal key.
StableSort(s, keys) ==
    LET n == Len(s)
        rank == [i \in 1..n |-> 1 + Cardinality({j \in 1..n :
                          keys[j] < keys[i] \/ (keys[j] = keys[i] /\ j < i)})]
    IN  [p \in 1..n |-> s[CHOOSE i \in 1..n : rank[i] = p]]

\* The set of elements of a sequence.
Range(s) == {s[i] : i \in 1..Len(s)}

\* ------------------------------------------------------------------------
\* domain/types.py
\* ------------------------------------------------------------------------

ACROSS == "across"
DOWN == "down"
LETTER == "letter"
BLOCK == "block"

\* Cell(type=..., solution=..., number=...)
\* Cell(type=..., solution=...); number 0 stands for number=None.
Cell(type, solution) == [type |-> type, solution |-> solution, number |-> 0]

is_letter(cell) == cell.type = LETTER

\* ------------------------------------------------------------------------
\* Inputs explored by the model
\* ------------------------------------------------------------------------

\* Longest candidate list handed to build().
MaxCands == 3

OMBRE == <<"O","M","B","R","E">>
GROUPE == <<"G","R","O","U","P","E">>
CAUSE == <<"C","A","U","S","E">>
CAUSES == <<"C","A","U","S","E","S">>
AIR == <<"A","I","R">>

\* Candidate words: two five-letter and two six-letter words that cross each
\* other, one of them extending another, and a three-letter word that is
\* also in the built-in short-word vocabulary.
Pool == {OMBRE, GROUPE, CAUSE, CAUSES, AIR}

RECURSIVE SeqsUpTo(_, _)
SeqsUpTo(S, n) ==
    IF n = 0 THEN {<< >>}
    ELSE LET shorter == SeqsUpTo(S, n - 1)
         IN  shorter \cup {Append(s, w) : s \in shorter, w \in S}

CandidateLists == SeqsUpTo(Pool, MaxCands)

\* BuilderConfig.max_rows / max_cols values: one below the minimum working
\* size of 7, one odd and one even size that leave room for a seed word.
Sizes == {6, 9, 10}

\* BuilderConfig.seed values (the value the repository's tests use most).
Seeds == {42}

\* ------------------------------------------------------------------------
\* State
\* ------------------------------------------------------------------------

VARIABLES
    \* GridBuilder instance (grid_builder.py, __init__)
    config,          \* BuilderConfig: [max_rows, max_cols, seed]
    grid,            \* self.grid: working array, "." = empty
    placed,          \* self.placed: list of PlacedWord
    used_words,      \* self.used_words
    letter_index,    \* self.letter_index: letter -> list of LetterPos
    min_row,         \* self.min_row .. self.max_col: tracked bounding box
    max_row,
    min_col,
    max_col,
    \* one call of build(candidates)
    candidates,      \* the argument
    pc,              \* position inside build
    selected,        \* local: remaining selected ScoredWords
    horz,            \* locals horz_word, horz_row, horz_col of the seed phase
    placed_count,    \* local of the main loop
    failures,        \* local of the main loop
    max_failures,    \* local of the main loop
    by_length,       \* local of _fill_gaps: length -> list of words
    passes,          \* completed iterations of the pass loop of _fill_gaps
    result,          \* the returned BuildResult
    prev,            \* input and result of an earlier builder instance
    \* one call of Solver.solve(grid) (solver.py)
    lexicon,         \* self.lexicon: the words of the lexicon
    solve_grid,      \* the argument: a grid of Cells
    solve_pc,        \* position inside solve
    slots,           \* local: the discovered slots
    crossings,       \* local: the crossings between slots
    problem,         \* the CSP variables added so far: one domain per slot
    solve_result,    \* the returned SolveResult
    \* one call of Orchestrator.generate(request) (orchestrator.py)
    request,         \* the argument: [max_attempts, max_size]
    attempt,         \* loop variable of generate
    gen_pc,          \* position inside generate
    last_outcome,    \* how the latest finished attempt ended
    gen_result,      \* the returned GenerateResult
    \* one call of Orchestrator._assign_numbers(grid, slots)
    assign_grid,     \* the argument: a grid of Cells, numbered in place
    assign_pc,       \* position inside _assign_numbers
    \* HybridLexicon instance (lexicon.py)
    _primary,        \* self._primary: a MemoryLexicon
    _fallback,       \* self._fallback: a MemoryLexicon
    match_call       \* pattern, locals and return value of the latest match

builder_vars == <<config, grid, placed, used_words, letter_index,
                  min_row, max_row, min_col, max_col>>
build_vars == <<candidates, pc, selected, horz, placed_count, failures,
                max_failures, by_length, passes, result, prev>>
solver_vars == <<lexicon, solve_grid, solve_pc, slots, crossings, problem,
                 solve_result>>
generate_vars == <<request, attempt, gen_pc, last_outcome, gen_result>>
numbering_vars == <<assign_grid, assign_pc>>
hybrid_vars == <<_primary, _fallback, match_call>>
pipeline_vars == <<generate_vars, numbering_vars, hybrid_vars>>
vars == <<builder_vars, build_vars, solver_vars, pipeline_vars>>

Letters == {"A","B","C","D","E","F","G","H","I","J","K","L","M",
            "N","O","P","Q","R","S","T","U","V","W","X","Y","Z"}

\* ------------------------------------------------------------------------
\* GridBuilder.__init__
\* ------------------------------------------------------------------------

target_rows == Max(config.max_rows, 7)
target_cols == Max(config.max_cols, 7)
max_rows == target_rows + 1
max_cols == target_cols + 1

\* Faulty variant of __init__: used_words is shared between builders, so a
\* builder constructed after a finished build starts with that build's words.
__init___with_shared_used_words(cfg) ==
    [config |-> cfg,
     grid |-> << >>,
     placed |-> << >>,
     used_words |-> IF pc = "done" THEN used_words ELSE {},
     letter_index |-> [l \in Letters |-> << >>],
     min_row |-> Max(cfg.max_rows, 7),
     max_row |-> 0,
     min_col |-> Max(cfg.max_cols, 7),
     max_col |-> 0]

\* The attributes __init__ sets for configuration cfg (self.rng, which no
\* method reads, is left out; target_rows .. max_cols are the operators above).
__init__(cfg) ==
    [config |-> cfg,
     grid |-> << >>,
     placed |-> << >>,
     used_words |-> {},
     letter_index |-> [l \in Letters |-> << >>],
     min_row |-> Max(cfg.max_rows, 7),
     max_row |-> 0,
     min_col |-> Max(cfg.max_cols, 7),
     max_col |-> 0]

\* ------------------------------------------------------------------------
\* Candidate scoring and selection
\* ------------------------------------------------------------------------

Vowels == {"A","E","I","O","U"}

\* vowel_ratio * length_score * len(word), as the double arithmetic gives it,
\* in quarters: (v / n) * ls * n is exactly v * ls for every 3 <= n <= 8 and
\* 0 <= v <= n except n = 5 with v in {1, 2, 4}, where the rounded product
\* lies one unit in the last place above v * 1.5.
score_of(word) ==
    LET n == Len(word)
        v == Cardinality({i \in 1..n : word[i] \in Vowels})
        exact4 == 2 * v * (IF 4 <= n /\ n <= 6 THEN 3 ELSE 2)
    IN  exact4 + (IF n = 5 /\ v \in {1, 2, 4} THEN 1 ELSE 0)

_score_words(words) ==
    LET keep(i) == /\ Len(words[i]) >= 3
                   /\ Len(words[i]) <= 8
                   /\ \A j \in 1..(i - 1) : words[j] # words[i]
        idx == SelectSeq([i \in 1..Len(words) |-> i], keep)
    IN  [p \in 1..Len(idx) |-> [word |-> words[idx[p]], score |-> score_of(words[idx[p]])]]

RECURSIVE SelectLoop(_, _, _, _)
SelectLoop(scored, i, sel, n) ==
    IF i > Len(scored) \/ Len(sel) >= n THEN sel
    ELSE LET length == Len(scored[i].word)
             count == Cardinality({j \in 1..Len(sel) : Len(sel[j].word) = length})
         IN  SelectLoop(scored, i + 1,
                        IF count < 6 THEN Append(sel, scored[i]) ELSE sel, n)

_select_best_words(scored, n) ==
    LET sorted == StableSort(scored, [i \in 1..Len(scored) |-> 0 - scored[i].score])
        sel == SelectLoop(sorted, 1, << >>, n)
    IN  StableSort(sel, [i \in 1..Len(sel) |-> Abs(Len(sel[i].word) - 5)])

common_short ==
  <<
    <<"A","U">>, <<"D","E">>, <<"D","U">>, <<"E","N">>, <<"E","T">>, <<"I","L">>, <<"J","E">>,
    <<"L","A">>, <<"L","E">>, <<"L","U">>, <<"M","A">>, <<"M","E">>, <<"M","I">>, <<"M","U">>,
    <<"N","E">>, <<"N","I">>, <<"N","U">>, <<"O","N">>, <<"O","R">>, <<"O","S">>, <<"O","U">>,
    <<"P","U">>, <<"S","A">>, <<"S","E">>, <<"S","I">>, <<"S","U">>, <<"T","A">>, <<"T","E">>,
    <<"T","U">>, <<"U","N">>, <<"V","A">>, <<"V","U">>, <<"A","I","R">>, <<"A","M","E">>,
    <<"A","M","I">>, <<"A","N","E">>, <<"A","N","S">>, <<"A","R","C">>, <<"A","R","T">>,
    <<"B","A","L">>, <<"B","A","S">>, <<"B","E","C">>, <<"B","E","L">>, <<"B","L","E">>,
    <<"B","O","A">>, <<"B","O","L">>, <<"B","O","N">>, <<"B","U","T">>, <<"C","A","P">>,
    <<"C","A","S">>, <<"C","L","E">>, <<"C","O","L">>, <<"C","O","U">>, <<"C","R","I">>,
    <<"C","R","U">>, <<"D","E","S">>, <<"D","I","X">>, <<"D","O","S">>, <<"D","U","R">>,
    <<"E","A","U">>, <<"E","C","U">>, <<"E","L","U">>, <<"E","R","E">>, <<"E","T","E">>,
    <<"E","U","R">>, <<"F","E","E">>, <<"F","E","R">>, <<"F","E","U">>, <<"F","I","L">>,
    <<"F","I","N">>, <<"F","O","I">>, <<"F","O","U">>, <<"G","A","I">>, <<"G","A","Z">>,
    <<"G","E","L">>, <<"I","L","E">>, <<"J","E","U">>, <<"L","A","C">>, <<"L","I","T">>,
    <<"L","O","I">>, <<"L","U","I">>, <<"M","E","R">>, <<"M","I","S">>, <<"M","O","I">>,
    <<"M","O","T">>, <<"M","U","R">>, <<"N","E","Z">>, <<"N","I","D">>, <<"N","O","M">>,
    <<"O","I","E">>, <<"O","U","I">>, <<"P","A","S">>, <<"P","E","U">>, <<"P","I","E">>,
    <<"P","I","N">>, <<"P","L","I">>, <<"P","O","T">>, <<"P","R","E">>, <<"P","U","R">>,
    <<"R","A","I">>, <<"R","A","S">>, <<"R","A","T">>, <<"R","I","Z">>, <<"R","O","I">>,
    <<"R","U","E">>, <<"S","A","C">>, <<"S","E","C">>, <<"S","E","L">>, <<"S","O","I">>,
    <<"S","O","L">>, <<"S","O","N">>, <<"S","O","U">>, <<"S","U","R">>, <<"T","A","S">>,
    <<"T","H","E">>, <<"T","I","R">>, <<"T","O","I">>, <<"T","O","N">>, <<"T","R","I">>,
    <<"U","N","E">>, <<"V","I","E">>, <<"V","I","N">>, <<"V","O","L">>, <<"V","U","E">>,
    <<"A","I","D","E">>, <<"A","I","L","E">>, <<"A","I","R","E">>, <<"A","M","E","R">>,
    <<"A","M","I","E">>, <<"A","N","G","E">>, <<"A","U","B","E">>, <<"A","V","E","C">>,
    <<"B","A","I","E">>, <<"B","A","I","N">>, <<"B","A","S","E">>, <<"B","E","A","U">>,
    <<"B","I","E","N">>, <<"B","O","I","S">>, <<"B","O","N","D">>, <<"B","O","U","T">>,
    <<"C","A","F","E">>, <<"C","A","G","E">>, <<"C","A","P","E">>, <<"C","A","V","E">>,
    <<"C","H","E","F">>, <<"C","I","E","L">>, <<"C","I","T","E">>, <<"C","L","E","F">>,
    <<"C","O","I","N">>, <<"C","O","L","S">>, <<"C","O","N","E">>, <<"C","O","T","E">>,
    <<"C","O","U","P">>, <<"C","O","U","R">>, <<"C","U","B","E">>, <<"C","U","R","E">>,
    <<"D","A","M","E">>, <<"D","A","T","E">>, <<"D","E","U","X">>, <<"D","I","E","U">>,
    <<"D","I","M","E">>, <<"D","I","R","E">>, <<"D","O","S","E">>, <<"D","O","U","X">>,
    <<"E","C","H","O">>, <<"E","P","E","E">>, <<"E","U","R","O">>, <<"F","A","C","E">>,
    <<"F","A","I","T">>, <<"F","A","I","M">>, <<"F","A","U","X">>, <<"F","E","T","E">>,
    <<"F","I","E","R">>, <<"F","I","L","S">>, <<"F","I","N","E">>, <<"F","O","I","S">>,
    <<"F","O","N","D">>, <<"F","O","R","T">>, <<"F","O","U","R">>, <<"G","A","R","E">>,
    <<"G","O","U","T">>, <<"G","R","I","S">>, <<"G","R","O","S">>, <<"H","A","U","T">>,
    <<"H","I","E","R">>, <<"H","O","R","S">>, <<"I","D","E","E">>, <<"I","L","E","S">>,
    <<"I","V","R","E">>, <<"J","E","U","X">>, <<"J","O","I","E">>, <<"J","O","U","R">>,
    <<"J","U","G","E">>, <<"J","U","P","E">>, <<"J","U","R","E">>, <<"L","A","I","D">>,
    <<"L","A","M","E">>, <<"L","I","E","U">>, <<"L","I","E","N">>, <<"L","I","M","E">>,
    <<"L","I","O","N">>, <<"L","I","R","E">>, <<"L","O","I","N">>, <<"L","O","N","G">>,
    <<"L","O","U","P">>, <<"L","U","X","E">>, <<"M","A","I","N">>, <<"M","A","I","S">>,
    <<"M","A","L","E">>, <<"M","A","R","E">>, <<"M","A","U","X">>, <<"M","E","N","U">>,
    <<"M","E","R","E">>, <<"M","I","D","I">>, <<"M","I","N","E">>, <<"M","O","D","E">>,
    <<"M","O","I","S">>, <<"M","O","N","T">>, <<"M","O","R","T">>, <<"M","O","T","S">>,
    <<"M","U","E","T">>, <<"N","A","G","E">>, <<"N","E","U","F">>, <<"N","O","I","X">>,
    <<"N","O","R","D">>, <<"N","O","T","E">>, <<"N","O","U","S">>, <<"N","U","I","T">>,
    <<"O","E","U","F">>, <<"O","N","D","E">>, <<"O","N","Z","E">>, <<"P","A","I","X">>,
    <<"P","A","I","N">>, <<"P","A","L","E">>, <<"P","A","R","E">>, <<"P","A","R","I">>,
    <<"P","A","Y","S">>, <<"P","E","A","U">>, <<"P","E","R","E">>, <<"P","E","U","R">>,
    <<"P","I","E","D">>, <<"P","I","L","E">>, <<"P","I","P","E">>, <<"P","I","R","E">>,
    <<"P","L","A","T">>, <<"P","L","I","E">>, <<"P","N","E","U">>, <<"P","O","I","L">>,
    <<"P","O","I","S">>, <<"P","O","N","T">>, <<"P","O","R","C">>, <<"P","O","R","T">>,
    <<"P","O","S","E">>, <<"P","O","U","R">>, <<"P","R","E","S">>, <<"P","R","E","T">>,
    <<"P","R","I","X">>, <<"P","U","R","E">>, <<"Q","U","A","I">>, <<"Q","U","E","L">>,
    <<"R","A","C","E">>, <<"R","A","G","E">>, <<"R","A","I","D">>, <<"R","A","N","G">>,
    <<"R","A","R","E">>, <<"R","A","S","E">>, <<"R","A","V","I">>, <<"R","A","I","E">>,
    <<"R","A","M","E">>, <<"R","E","A","L">>, <<"R","E","I","N">>, <<"R","I","R","E">>,
    <<"R","I","T","E">>, <<"R","I","V","E">>, <<"R","O","B","E">>, <<"R","O","I","S">>,
    <<"R","O","L","E">>, <<"R","O","S","E">>, <<"R","O","U","E">>, <<"R","O","U","X">>,
    <<"R","U","D","E">>, <<"S","A","I","N">>, <<"S","A","L","E">>, <<"S","A","N","G">>,
    <<"S","A","N","S">>, <<"S","A","U","F">>, <<"S","A","U","T">>, <<"S","E","I","N">>,
    <<"S","E","N","S">>, <<"S","E","U","L">>, <<"S","I","E","N">>, <<"S","I","T","E">>,
    <<"S","O","I","E">>, <<"S","O","I","N">>, <<"S","O","I","R">>, <<"S","O","L","E">>,
    <<"S","O","R","T">>, <<"S","U","I","S">>, <<"S","U","R","F">>, <<"T","A","C","T">>,
    <<"T","A","I","E">>, <<"T","A","R","E">>, <<"T","A","U","X">>, <<"T","E","L","E">>,
    <<"T","E","S","T">>, <<"T","E","T","E">>, <<"T","I","E","N">>, <<"T","I","G","E">>,
    <<"T","I","R","E">>, <<"T","O","I","T">>, <<"T","O","R","T">>, <<"T","O","U","R">>,
    <<"T","O","U","T">>, <<"T","R","I","O">>, <<"T","R","O","P">>, <<"T","R","O","U">>,
    <<"T","Y","P","E">>, <<"U","R","N","E">>, <<"V","E","A","U">>, <<"V","E","L","O">>,
    <<"V","E","N","T">>, <<"V","E","N","U">>, <<"V","E","R","S">>, <<"V","I","D","E">>,
    <<"V","I","E","S">>, <<"V","I","F","S">>, <<"V","I","L","E">>, <<"V","O","E","U">>,
    <<"V","O","I","E">>, <<"V","O","I","R">>, <<"V","O","L","E">>, <<"V","O","U","S">>,
    <<"V","R","A","I">>, <<"Y","E","U","X">>, <<"Z","E","R","O">>, <<"Z","O","N","E">>
  >>

_collect_short_words(cands) ==
    LET isShort(i) == /\ 2 <= Len(cands[i])
                      /\ Len(cands[i]) <= 4
                      /\ \A j \in 1..(i - 1) : cands[j] # cands[i]
        idx == SelectSeq([i \in 1..Len(cands) |-> i], isShort)
        short == [p \in 1..Len(idx) |-> cands[idx[p]]]
        fresh(w) == w \notin Range(short)
    IN  short \o SelectSeq(common_short, fresh)

\* ------------------------------------------------------------------------
\* Placement checks (read the current working grid)
\* ------------------------------------------------------------------------

dr(direction) == IF direction = DOWN THEN 1 ELSE 0
dc(direction) == IF direction = DOWN THEN 0 ELSE 1

\* Faulty variants of _can_place, to show what the properties below rest on:
\* one without the letter-conflict test of the cell loop, one whose border
\* test lets a word end on the last but one row or column.
_can_place_without_conflict_test(word, row, col, direction) ==
    LET n == Len(word)
        end_row == row + dr(direction) * (n - 1)
        end_col == col + dc(direction) * (n - 1)
        cellOk(i) ==
            LET r == row + dr(direction) * i
                cc == col + dc(direction) * i
                existing == grid[r][cc]
            IN  existing = "." =>
                     IF direction = ACROSS
                     THEN /\ ~(r > 0 /\ grid[r - 1][cc] # ".")
                          /\ ~(r < max_rows - 1 /\ grid[r + 1][cc] # ".")
                     ELSE /\ ~(cc > 0 /\ grid[r][cc - 1] # ".")
                          /\ ~(cc < max_cols - 1 /\ grid[r][cc + 1] # ".")
    IN  /\ ~(row < 1 \/ col < 1 \/ end_row >= target_rows - 1 \/ end_col >= target_cols - 1)
        /\ \A i \in 0..(n - 1) : cellOk(i)
        /\ IF direction = ACROSS
           THEN /\ ~(col > 0 /\ grid[row][col - 1] # ".")
                /\ ~(end_col < max_cols - 1 /\ grid[row][end_col + 1] # ".")
           ELSE /\ ~(row > 0 /\ grid[row - 1][col] # ".")
                /\ ~(end_row < max_rows - 1 /\ grid[end_row + 1][col] # ".")

_can_place_with_wide_border(word, row, col, direction) ==
    LET n == Len(word)
        end_row == row + dr(direction) * (n - 1)
        end_col == col + dc(direction) * (n - 1)
        cellOk(i) ==
            LET r == row + dr(direction) * i
                cc == col + dc(direction) * i
                existing == grid[r][cc]
            IN  /\ ~(existing # "." /\ existing # word[i + 1])
                /\ existing = "." =>
                     IF direction = ACROSS
                     THEN /\ ~(r > 0 /\ grid[r - 1][cc] # ".")
                          /\ ~(r < max_rows - 1 /\ grid[r + 1][cc] # ".")
                     ELSE /\ ~(cc > 0 /\ grid[r][cc - 1] # ".")
                          /\ ~(cc < max_cols - 1 /\ grid[r][cc + 1] # ".")
    IN  /\ ~(row < 0 \/ col < 0 \/ end_row >= target_rows \/ end_col >= target_cols)
        /\ \A i \in 0..(n - 1) : cellOk(i)
        /\ IF direction = ACROSS
           THEN /\ ~(col > 0 /\ grid[row][col - 1] # ".")
                /\ ~(end_col < max_cols - 1 /\ grid[row][end_col + 1] # ".")
           ELSE /\ ~(row > 0 /\ grid[row - 1][col] # ".")
                /\ ~(end_row < max_rows - 1 /\ grid[end_row + 1][col] # ".")

_can_place(word, row, col, direction) ==
    LET n == Len(word)
        end_row == row + dr(direction) * (n - 1)
        end_col == col + dc(direction) * (n - 1)
        cellOk(i) ==
            LET r == row + dr(direction) * i
                cc == col + dc(direction) * i
                existing == grid[r][cc]
            IN  /\ ~(existing # "." /\ existing # word[i + 1])
                /\ existing = "." =>
                     IF direction = ACROSS
                     THEN /\ ~(r > 0 /\ grid[r - 1][cc] # ".")
                          /\ ~(r < max_rows - 1 /\ grid[r + 1][cc] # ".")
                     ELSE /\ ~(cc > 0 /\ grid[r][cc - 1] # ".")
                          /\ ~(cc < max_cols - 1 /\ grid[r][cc + 1] # ".")
    IN  /\ ~(row < 0 \/ col < 0)
        /\ ~(row < 1 \/ col < 1 \/ end_row >= target_rows - 1 \/ end_col >= target_cols - 1)
        /\ \A i \in 0..(n - 1) : cellOk(i)
        /\ IF direction = ACROSS
           THEN /\ ~(col > 0 /\ grid[row][col - 1] # ".")
                /\ ~(end_col < max_cols - 1 /\ grid[row][end_col + 1] # ".")
           ELSE /\ ~(row > 0 /\ grid[row - 1][col] # ".")
                /\ ~(end_row < max_rows - 1 /\ grid[end_row + 1][col] # ".")

_can_fill_gap(word, gap) ==
    LET n == Len(word)
        row == gap.row
        col == gap.col
        end_row == row + dr(gap.direction) * (n - 1)
        end_col == col + dc(gap.direction) * (n - 1)
        cellOk(i) ==
            LET r == row + dr(gap.direction) * i
                cc == col + dc(gap.direction) * i
            IN  /\ ~(r < 0 \/ r >= max_rows \/ cc < 0 \/ cc >= max_cols)
                /\ ~(grid[r][cc] # "." /\ grid[r][cc] # word[i + 1])
    IN  /\ n = gap.length
        /\ \A i \in 0..(n - 1) : cellOk(i)
        /\ IF gap.direction = ACROSS
           THEN /\ ~(col > 0 /\ grid[row][col - 1] # ".")
                /\ ~(end_col < max_cols - 1 /\ grid[row][end_col + 1] # ".")
           ELSE /\ ~(row > 0 /\ grid[row - 1][col] # ".")
                /\ ~(end_row < max_rows - 1 /\ grid[end_row + 1][col] # ".")

_count_crossings(word, row, col, direction) ==
    Cardinality({i \in 0..(Len(word) - 1) :
        grid[row + dr(direction) * i][col + dc(direction) * i] # "."})

_calc_expansion(word, row, col, direction) ==
    IF placed = << >> THEN 0
    ELSE LET end_row == row + dr(direction) * (Len(word) - 1)
             end_col == col + dc(direction) * (Len(word) - 1)
         IN  (IF row < min_row THEN min_row - row ELSE 0)
           + (IF end_row > max_row THEN end_row - max_row ELSE 0)
           + (IF col < min_col THEN min_col - col ELSE 0)
           + (IF end_col > max_col THEN end_col - max_col ELSE 0)

\* ------------------------------------------------------------------------
\* Greedy placement search
\* ------------------------------------------------------------------------

\* Faulty variant of CrossingAt: the letter's position in the new word is
\* added to the start of the owning word where it has to be subtracted.
CrossingAt_with_sign_slip(word, i, lp) ==
    LET pw == placed[lp.word_idx + 1]
    IN  IF pw.direction = ACROSS
        THEN [row |-> pw.row + i, col |-> pw.col + lp.char_idx, direction |-> DOWN]
        ELSE [row |-> pw.row + lp.char_idx, col |-> pw.col + i, direction |-> ACROSS]

\* The placement tried for letter i of word against the indexed letter lp.
CrossingAt(word, i, lp) ==
    LET pw == placed[lp.word_idx + 1]
    IN  IF pw.direction = ACROSS
        THEN [row |-> pw.row - i, col |-> pw.col + lp.char_idx, direction |-> DOWN]
        ELSE [row |-> pw.row + lp.char_idx, col |-> pw.col - i, direction |-> ACROSS]

_find_all_placements(word) ==
    LET forLetter(i) ==
            LET positions == letter_index[word[i + 1]]
                try(k) ==
                    LET t == CrossingAt(word, i, positions[k])
                    IN  IF _can_place(word, t.row, t.col, t.direction)
                        THEN << [row |-> t.row, col |-> t.col, direction |-> t.direction,
                                 crossings |-> _count_crossings(word, t.row, t.col, t.direction),
                                 expansion |-> _calc_expansion(word, t.row, t.col, t.direction)] >>
                        ELSE << >>
            IN  Flatten([k \in 1..Len(positions) |-> try(k)])
    IN  Flatten([i1 \in 1..Len(word) |-> forLetter(i1 - 1)])

\* Scores are doubles in the source; every value here is an integer.
_score_placement(p) ==
    IF Len(placed) > 1 /\ p.crossings = 0 THEN 0 - 1000
    ELSE LET crossing_score == p.crossings * 100
             center_row == target_rows \div 2
             center_col == target_cols \div 2
             dist_from_center == Abs(p.row - center_row) + Abs(p.col - center_col)
             center_bonus == (20 - dist_from_center) * 2
         IN  crossing_score + center_bonus

\* Faulty variant of ScanBest: a placement with an equal score replaces the
\* best one too, so the last of the best placements is returned.
RECURSIVE ScanBest_replacing_on_equal_score(_, _, _)
ScanBest_replacing_on_equal_score(ps, i, best) ==
    IF i > Len(ps) THEN best
    ELSE IF best = None \/ ps[i].score >= best.score
         THEN ScanBest_replacing_on_equal_score(ps, i + 1, ps[i])
         ELSE ScanBest_replacing_on_equal_score(ps, i + 1, best)

\* The inner loops of _find_best_placement over one candidate sequence:
\* ps[i] replaces best only with a strictly greater score.
RECURSIVE ScanBest(_, _, _)
ScanBest(ps, i, best) ==
    IF i > Len(ps) THEN best
    ELSE IF best = None \/ ps[i].score > best.score
         THEN ScanBest(ps, i + 1, ps[i])
         ELSE ScanBest(ps, i + 1, best)

_find_best_placement(cands) ==
    LET forWord(k) ==
            LET w == cands[k].word
                pl == _find_all_placements(w)
            IN  IF w \in used_words THEN << >>
                ELSE [j \in 1..Len(pl) |->
                         [word |-> w, row |-> pl[j].row, col |-> pl[j].col,
                          direction |-> pl[j].direction,
                          score |-> _score_placement(pl[j]),
                          crossings |-> pl[j].crossings,
                          expansion |-> pl[j].expansion]]
    IN  ScanBest(Flatten([k \in 1..Len(cands) |-> forWord(k)]), 1, None)

\* ------------------------------------------------------------------------
\* _place_word
\* ------------------------------------------------------------------------

_place_word(word, row, col, direction) ==
    LET n == Len(word)
        word_idx == Len(placed)
        rowOf(i) == row + dr(direction) * i
        colOf(i) == col + dc(direction) * i
        rows == {rowOf(i) : i \in 0..(n - 1)}
        cols == {colOf(i) : i \in 0..(n - 1)}
        at(r, cc) == {i \in 0..(n - 1) : rowOf(i) = r /\ colOf(i) = cc}
        isLetter(c) == LET t(i) == word[i + 1] = c
                       IN  SelectSeq([i1 \in 1..n |-> i1 - 1], t)
    IN  /\ grid' = [r \in DOMAIN grid |-> [cc \in DOMAIN grid[r] |->
                       IF at(r, cc) # {} THEN word[(CHOOSE i \in at(r, cc) : TRUE) + 1]
                       ELSE grid[r][cc]]]
        /\ letter_index' = [c \in Letters |->
               LET occ == isLetter(c)
               IN  letter_index[c] \o
                   [k \in 1..Len(occ) |-> [word_idx |-> word_idx, char_idx |-> occ[k]]]]
        /\ min_row' = Min(min_row, CHOOSE r \in rows : \A r2 \in rows : r <= r2)
        /\ max_row' = Max(max_row, CHOOSE r \in rows : \A r2 \in rows : r >= r2)
        /\ min_col' = Min(min_col, CHOOSE c \in cols : \A c2 \in cols : c <= c2)
        /\ max_col' = Max(max_col, CHOOSE c \in cols : \A c2 \in cols : c >= c2)
        /\ placed' = Append(placed, [word |-> word, row |-> row, col |-> col,
                                     direction |-> direction])
        /\ used_words' = used_words \cup {word}

\* ------------------------------------------------------------------------
\* Gap filling
\* ------------------------------------------------------------------------

\* Gaps of one scan line: line is the fixed coordinate, lo..hi the scanned
\* range of the other one, at(x) the grid letter at position x of the line.
\* A gap starts at every empty x whose predecessor in lo..hi is not empty and
\* runs to the last empty cell before the next letter or hi.
_find_gaps ==
    LET across(row) ==
            LET start(col) == /\ grid[row][col] = "."
                              /\ (col = min_col \/ grid[row][col - 1] # ".")
                length(col) == Cardinality({e \in col..max_col :
                                   \A x \in col..e : grid[row][x] = "."})
                gap(col) == IF start(col) /\ length(col) >= 2
                            THEN << [row |-> row, col |-> col, length |-> length(col),
                                     direction |-> ACROSS] >>
                            ELSE << >>
            IN  Flatten([k \in 1..(max_col - min_col + 1) |-> gap(min_col + k - 1)])
        down(col) ==
            LET start(row) == /\ grid[row][col] = "."
                              /\ (row = min_row \/ grid[row - 1][col] # ".")
                length(row) == Cardinality({e \in row..max_row :
                                   \A x \in row..e : grid[x][col] = "."})
                gap(row) == IF start(row) /\ length(row) >= 2
                            THEN << [row |-> row, col |-> col, length |-> length(row),
                                     direction |-> DOWN] >>
                            ELSE << >>
            IN  Flatten([k \in 1..(max_row - min_row + 1) |-> gap(min_row + k - 1)])
        gaps == Flatten([k \in 1..(max_row - min_row + 1) |-> across(min_row + k - 1)])
                \o Flatten([k \in 1..(max_col - min_col + 1) |-> down(min_col + k - 1)])
    IN  IF placed = << >> THEN << >>
        ELSE StableSort(gaps, [i \in 1..Len(gaps) |-> gaps[i].length])

\* by_length as _fill_gaps builds it from all_words: the lengths that have an
\* unused word, each with its words in list order (repetitions kept).
ByLength(all_words) ==
    LET unused(w) == w \notin used_words
        ws == SelectSeq(all_words, unused)
    IN  [L \in {Len(ws[i]) : i \in 1..Len(ws)} |->
            LET hasLen(w) == Len(w) = L IN SelectSeq(ws, hasLen)]

\* Every cell of the gap lies in the working array and is empty.
GapIsEmpty(g) ==
    \A i \in 0..(g.length - 1) :
        LET r == g.row + dr(g.direction) * i
            cc == g.col + dc(g.direction) * i
        IN  r >= 0 /\ r < max_rows /\ cc >= 0 /\ cc < max_cols /\ grid[r][cc] = "."

\* for word in ws[k..]: skip used words, return the first one that
\* _can_fill_gap accepts (NoWord when the loop runs out).
RECURSIVE FirstFitFrom(_, _, _)
FirstFitFrom(ws, k, g) ==
    IF k > Len(ws) THEN NoWord
    ELSE IF ws[k] \notin used_words /\ _can_fill_gap(ws[k], g) THEN ws[k]
    ELSE FirstFitFrom(ws, k + 1, g)

\* Faulty variant of FirstUnused: the word loop without its used_words test.
FirstUnused_without_used_test(ws, k) ==
    IF k > Len(ws) THEN NoWord ELSE ws[k]

\* The first word of ws[k..] that is not used.
RECURSIVE FirstUnused(_, _)
FirstUnused(ws, k) ==
    IF k > Len(ws) THEN NoWord
    ELSE IF ws[k] \notin used_words THEN ws[k]
    ELSE FirstUnused(ws, k + 1)

\* The word loop of _fill_gaps over ws = by_length[g.length].  All words of
\* ws have the gap's length; on a gap whose cells are all empty no letter of
\* a word is compared with a grid letter, so _can_fill_gap answers alike for
\* every word of ws and the loop's result is decided by the first unused one.
FirstFit(ws, g) ==
    IF GapIsEmpty(g)
    THEN LET w == FirstUnused(ws, 1)
         IN  IF w # NoWord /\ _can_fill_gap(w, g) THEN w ELSE NoWord
    ELSE FirstFitFrom(ws, 1, g)

\* The body of "for gap in gaps" for one gap: the word placed and where, or None.
RECURSIVE TryShorter(_, _)
TryShorter(gap, length) ==
    IF length < 2 THEN None
    ELSE LET sub_gap == [row |-> gap.row, col |-> gap.col, length |-> length,
                         direction |-> gap.direction]
             w == IF length \in DOMAIN by_length
                  THEN FirstFit(by_length[length], sub_gap) ELSE NoWord
         IN  IF w # NoWord THEN [word |-> w, gap |-> sub_gap]
             ELSE TryShorter(gap, length - 1)

TryGap(gap) ==
    LET w == IF gap.length \in DOMAIN by_length
             THEN FirstFit(by_length[gap.length], gap) ELSE NoWord
    IN  IF w # NoWord THEN [word |-> w, gap |-> gap]
        ELSE TryShorter(gap, gap.length - 1)

\* One pass of _fill_gaps: the first gap, in sorted order, that takes a word.
RECURSIVE FirstFill(_, _)
FirstFill(gaps, i) ==
    IF i > Len(gaps) THEN None
    ELSE LET f == TryGap(gaps[i])
         IN  IF f # None THEN f ELSE FirstFill(gaps, i + 1)

\* ------------------------------------------------------------------------
\* Result
\* ------------------------------------------------------------------------

\* Faulty variant of _to_template: no padding row above the bounding box.
_to_template_without_top_padding ==
    IF placed = << >> THEN [i \in {0} |-> << >>]
    ELSE LET r0 == min_row
             c0 == IF min_col > 0 THEN min_col - 1 ELSE min_col
             r1 == IF max_row < max_rows - 1 THEN max_row + 1 ELSE max_row
             c1 == IF max_col < max_cols - 1 THEN max_col + 1 ELSE max_col
             rows == r1 - r0 + 1
             cols == c1 - c0 + 1
         IN  [i \in 0..(rows - 1) |-> [j \in 0..(cols - 1) |->
                 LET c == grid[r0 + i][c0 + j]
                 IN  IF c = "." THEN Cell(BLOCK, NoLetter) ELSE Cell(LETTER, c)]]

\* Faulty variant of _to_template: without the early return for an empty
\* placed list the row range is empty and the template is the empty list.
_to_template_without_empty_guard ==
    LET r0 == IF min_row > 0 THEN min_row - 1 ELSE min_row
        c0 == IF min_col > 0 THEN min_col - 1 ELSE min_col
        r1 == IF max_row < max_rows - 1 THEN max_row + 1 ELSE max_row
        c1 == IF max_col < max_cols - 1 THEN max_col + 1 ELSE max_col
        rows == r1 - r0 + 1
        cols == c1 - c0 + 1
    IN  [i \in 0..(rows - 1) |-> [j \in 0..(cols - 1) |->
            LET c == grid[r0 + i][c0 + j]
            IN  IF c = "." THEN Cell(BLOCK, NoLetter) ELSE Cell(LETTER, c)]]

_to_template ==
    IF placed = << >> THEN [i \in {0} |-> << >>]
    ELSE LET r0 == IF min_row > 0 THEN min_row - 1 ELSE min_row
             c0 == IF min_col > 0 THEN min_col - 1 ELSE min_col
             r1 == IF max_row < max_rows - 1 THEN max_row + 1 ELSE max_row
             c1 == IF max_col < max_cols - 1 THEN max_col + 1 ELSE max_col
             rows == r1 - r0 + 1
             cols == c1 - c0 + 1
         IN  [i \in 0..(rows - 1) |-> [j \in 0..(cols - 1) |->
                 LET c == grid[r0 + i][c0 + j]
                 IN  IF c = "." THEN Cell(BLOCK, NoLetter) ELSE Cell(LETTER, c)]]

_get_placed_words == [i \in 1..Len(placed) |-> placed[i].word]

\* Faulty variant of BuildResult: success only above 8 placed words.
BuildResult_above_eight == [grid |-> _to_template, words |-> _get_placed_words,
                            success |-> Len(placed) > 8]

BuildResult == [grid |-> _to_template, words |-> _get_placed_words,
                success |-> Len(placed) >= 8]

\* ------------------------------------------------------------------------
\* Slots and answers of a Cell grid (solver.py, orchestrator.py)
\* ------------------------------------------------------------------------

GridRows(g) == Cardinality(DOMAIN g)
GridCols(g) == IF GridRows(g) > 0 THEN Cardinality(DOMAIN g[0]) ELSE 0

\* Slots in emission order: across slots row by row, then down slots column
\* by column.  A slot starts at a letter cell with no letter cell before it
\* and covers the whole run; runs shorter than 2 are skipped.  The id
\* "slot_<k>" is modelled by the number k.
_discover_slots(g) ==
    LET rows == GridRows(g)
        cols == GridCols(g)
        across(row) ==
            LET start(col) == /\ is_letter(g[row][col])
                              /\ (col = 0 \/ ~is_letter(g[row][col - 1]))
                length(col) == Cardinality({e \in col..(cols - 1) :
                                   \A x \in col..e : is_letter(g[row][x])})
                slot(col) == IF start(col) /\ length(col) >= 2
                             THEN << [row |-> row, col |-> col, length |-> length(col),
                                      direction |-> ACROSS] >>
                             ELSE << >>
            IN  Flatten([k \in 1..cols |-> slot(k - 1)])
        down(col) ==
            LET start(row) == /\ is_letter(g[row][col])
                              /\ (row = 0 \/ ~is_letter(g[row - 1][col]))
                length(row) == Cardinality({e \in row..(rows - 1) :
                                   \A x \in row..e : is_letter(g[x][col])})
                slot(row) == IF start(row) /\ length(row) >= 2
                             THEN << [row |-> row, col |-> col, length |-> length(row),
                                      direction |-> DOWN] >>
                             ELSE << >>
            IN  Flatten([k \in 1..rows |-> slot(k - 1)])
        found == Flatten([k \in 1..rows |-> across(k - 1)])
                 \o Flatten([k \in 1..cols |-> down(k - 1)])
    IN  [k \in 1..Len(found) |->
            [id |-> k - 1, row |-> found[k].row, col |-> found[k].col,
             length |-> found[k].length, direction |-> found[k].direction]]

\* The cells of a slot, in order.
SlotCell(slot, i) == <<slot.row + dr(slot.direction) * i, slot.col + dc(slot.direction) * i>>

\* The solution letters along a slot, cells without a solution skipped.
SlotLetters(g, slot) ==
    LET letter(i) == g[SlotCell(slot, i)[1]][SlotCell(slot, i)[2]].solution
        has(i) == letter(i) # NoLetter
        idx == SelectSeq([i \in 1..slot.length |-> i - 1], has)
    IN  [k \in 1..Len(idx) |-> letter(idx[k])]

\* The dict _extract_answers returns: key (direction, row, col) -> entry, for
\* the slots whose cells all carry a solution.
_extract_answers(g, found) ==
    LET full == {k \in 1..Len(found) : Len(SlotLetters(g, found[k])) = found[k].length}
        keyOf(k) == <<found[k].direction, found[k].row, found[k].col>>
    IN  [key \in {keyOf(k) : k \in full} |->
            LET k == CHOOSE k \in full : keyOf(k) = key
            IN  [answer |-> SlotLetters(g, found[k]), direction |-> found[k].direction,
                 row |-> found[k].row, col |-> found[k].col, length |-> found[k].length]]

\* ------------------------------------------------------------------------
\* Solver.solve (solver.py) over a MemoryLexicon (lexicon.py)
\* ------------------------------------------------------------------------

\* Slot.pattern: the solution of each cell of the slot, "." where a cell has
\* none.
pattern(slot, g) ==
    [k \in 1..slot.length |->
        LET cell == g[SlotCell(slot, k - 1)[1]][SlotCell(slot, k - 1)[2]]
        IN  IF cell.solution # NoLetter THEN cell.solution ELSE "."]

\* MemoryLexicon.match: the words of the pattern's length that the regular
\* expression "^" + pattern + "$" matches, "." standing for any letter.  The
\* list is built by iterating a set, so it is modelled as a set.
match(p) ==
    {w \in lexicon : /\ Len(w) = Len(p)
                     /\ \A k \in 1..Len(p) : p[k] = "." \/ p[k] = w[k]}

\* Faulty variant of _find_crossings: the direction test turned around, so
\* that no crossing of an across and a down slot is recorded.
_find_crossings_of_equal_directions(found, g) ==
    LET covers(k, pos) == \E i \in 0..(found[k].length - 1) : SlotCell(found[k], i) = pos
        idxOf(k, pos) == CHOOSE i \in 0..(found[k].length - 1) : SlotCell(found[k], i) = pos
        at(pos) == SelectSeq([k \in 1..Len(found) |-> k], LAMBDA k : covers(k, pos))
        first(k, pos) == \A k0 \in 1..(k - 1) : ~covers(k0, pos)
        crossing(pos) ==
            LET slot_positions == at(pos)
                s1 == slot_positions[1]
                s2 == slot_positions[2]
            IN  IF Len(slot_positions) = 2
                   /\ found[s1].direction = found[s2].direction
                THEN << [slot1_id |-> found[s1].id, slot2_id |-> found[s2].id,
                         idx1 |-> idxOf(s1, pos), idx2 |-> idxOf(s2, pos)] >>
                ELSE << >>
        ofSlot(k) ==
            Flatten([i \in 1..found[k].length |->
                LET pos == SlotCell(found[k], i - 1)
                IN  IF first(k, pos) THEN crossing(pos) ELSE << >>])
    IN  Flatten([k \in 1..Len(found) |-> ofSlot(k)])

\* _find_crossings: position_map lists, for every cell, the slots through it
\* in slot order; a cell with exactly two slots of different directions gives
\* a Crossing.  Crossings come in the order their cells enter the map.
_find_crossings(found, g) ==
    LET covers(k, pos) == \E i \in 0..(found[k].length - 1) : SlotCell(found[k], i) = pos
        idxOf(k, pos) == CHOOSE i \in 0..(found[k].length - 1) : SlotCell(found[k], i) = pos
        at(pos) == SelectSeq([k \in 1..Len(found) |-> k], LAMBDA k : covers(k, pos))
        first(k, pos) == \A k0 \in 1..(k - 1) : ~covers(k0, pos)
        crossing(pos) ==
            LET slot_positions == at(pos)
                s1 == slot_positions[1]
                s2 == slot_positions[2]
            IN  IF Len(slot_positions) = 2
                   /\ found[s1].direction # found[s2].direction
                THEN << [slot1_id |-> found[s1].id, slot2_id |-> found[s2].id,
                         idx1 |-> idxOf(s1, pos), idx2 |-> idxOf(s2, pos)] >>
                ELSE << >>
        ofSlot(k) ==
            Flatten([i \in 1..found[k].length |->
                LET pos == SlotCell(found[k], i - 1)
                IN  IF first(k, pos) THEN crossing(pos) ELSE << >>])
    IN  Flatten([k \in 1..Len(found) |-> ofSlot(k)])

\* The assignments problem.getSolution() can return: one word of its domain
\* for every slot, every crossing constraint w1[idx1] == w2[idx2] satisfied
\* and, when AllDifferentConstraint was added, all words different.  Which
\* one comes first depends on the iteration order of the domains' sets, so
\* every solution is a possible return value; with none, None is returned.
\* Sequences of words for the slots 1..k-1 are extended slot by slot.
RECURSIVE Extend(_, _)
Extend(partial, k) ==
    IF k > Len(slots) THEN {partial}
    ELSE LET id == slots[k].id
             wordOf(other_id, w) == IF other_id = id THEN w ELSE partial[other_id + 1]
             decided(c) == c.slot1_id <= id /\ c.slot2_id <= id
                             /\ (c.slot1_id = id \/ c.slot2_id = id)
             ok(w) == /\ \A n \in 1..Len(crossings) :
                            decided(crossings[n]) =>
                               wordOf(crossings[n].slot1_id, w)[crossings[n].idx1 + 1]
                                 = wordOf(crossings[n].slot2_id, w)[crossings[n].idx2 + 1]
                      /\ Len(slots) > 1 => \A j \in 1..Len(partial) : partial[j] # w
         IN  UNION {Extend(Append(partial, w), k + 1) : w \in {x \in problem[k] : ok(x)}}

getSolution == {[id \in 0..(Len(slots) - 1) |-> s[id + 1]] : s \in Extend(<< >>, 1)}

\* _fill_grid: a copy of the grid (type and solution of every cell) with the
\* word of every slot written along it, slot after slot.
_fill_grid(g, found, solution) ==
    [r \in DOMAIN g |-> [c \in DOMAIN g[r] |->
        LET through == {k \in 1..Len(found) :
                           \E i \in 0..(found[k].length - 1) : SlotCell(found[k], i) = <<r, c>>}
            last == CHOOSE k \in through : \A k2 \in through : k2 <= k
            idx == CHOOSE i \in 0..(found[last].length - 1) : SlotCell(found[last], i) = <<r, c>>
        IN  IF through = {} THEN Cell(g[r][c].type, g[r][c].solution)
            ELSE Cell(g[r][c].type, solution[found[last].id][idx + 1])]]

\* An error message: the text of the (f-)string literal and, in order, the
\* values formatted into its replacement fields.
ErrorText(text, values) == [text |-> text, values |-> values]

SolveResult(success, g, words, error) ==
    [success |-> success, grid |-> g, words |-> words, error |-> error]

\* ------------------------------------------------------------------------
\* GridBuilder.build, step by step
\* ------------------------------------------------------------------------

\* Steps 1 and 2: score and select the candidates, allocate the working grid.
\* Faulty variant of BuildStart: the selected list is rotated by a number
\* of places drawn from the seed before the seed phase.
BuildStart_shuffling_by_seed ==
    /\ pc = "start"
    /\ LET sel == _select_best_words(_score_words(candidates), 40)
           k == IF sel = << >> THEN 0 ELSE config.seed % Len(sel)
       IN  selected' = SubSeq(sel, k + 1, Len(sel)) \o SubSeq(sel, 1, k)
    /\ grid' = [r \in 0..(max_rows - 1) |-> [c \in 0..(max_cols - 1) |-> "."]]
    /\ pc' = "seed_horizontal"
    /\ UNCHANGED <<config, placed, used_words, letter_index, min_row, max_row,
                   min_col, max_col, candidates, horz, placed_count, failures,
                   max_failures, by_length, passes, result, prev, solver_vars, pipeline_vars>>

BuildStart ==
    /\ pc = "start"
    /\ selected' = _select_best_words(_score_words(candidates), 40)
    /\ grid' = [r \in 0..(max_rows - 1) |-> [c \in 0..(max_cols - 1) |-> "."]]
    /\ pc' = "seed_horizontal"
    /\ UNCHANGED <<config, placed, used_words, letter_index, min_row, max_row,
                   min_col, max_col, candidates, horz, placed_count, failures,
                   max_failures, by_length, passes, result, prev, solver_vars, pipeline_vars>>

\* The locals the main loop starts with, for the selected list sel and the
\* number n_placed of words the seed phase has placed.
EnterMainLoop(sel, n_placed) ==
    /\ selected' = sel
    /\ placed_count' = n_placed
    /\ failures' = 0
    /\ max_failures' = Len(sel) * 3
    /\ pc' = "main_loop"

\* Step 3, first half: the first selected word of 5 to 7 letters goes across
\* the centre row when the column check lets it.
SeedHorizontal ==
    /\ pc = "seed_horizontal"
    /\ LET center_row == target_rows \div 2
           center_col == target_cols \div 2
           long == {i \in 1..Len(selected) :
                       5 <= Len(selected[i].word) /\ Len(selected[i].word) <= 7}
           horz_idx == IF long = {} THEN 0 - 1
                       ELSE (CHOOSE i \in long : \A j \in long : i <= j) - 1
           horz_word == selected[horz_idx + 1].word
           horz_row == center_row
           horz_col == center_col - (Len(horz_word) \div 2)
       IN  IF /\ horz_idx >= 0
              /\ horz_col >= 1
              /\ horz_col + Len(horz_word) < target_cols - 1
           THEN /\ _place_word(horz_word, horz_row, horz_col, ACROSS)
                /\ selected' = SubSeq(selected, 1, horz_idx)
                                 \o SubSeq(selected, horz_idx + 2, Len(selected))
                /\ horz' = [word |-> horz_word, row |-> horz_row, col |-> horz_col]
                /\ pc' = "seed_vertical"
                /\ UNCHANGED <<placed_count, failures, max_failures>>
           ELSE /\ EnterMainLoop(selected, Len(placed))
                /\ UNCHANGED <<grid, placed, used_words, letter_index,
                               min_row, max_row, min_col, max_col, horz>>
    /\ UNCHANGED <<config, candidates, by_length, passes, result, prev, solver_vars, pipeline_vars>>

\* The first (i, j, k), in loop order, at which selected[i] (4 to 6 letters)
\* can go down through letter k of the horizontal word with its letter j.
VerticalSeed ==
    LET hw == horz.word
        forWord(i) ==
            LET w == selected[i].word
                try(j, k) ==
                    LET v_row == horz.row - j
                        v_col == horz.col + k
                    IN  IF /\ w[j + 1] = hw[k + 1]
                           /\ v_row >= 1
                           /\ v_row + Len(w) < target_rows - 1
                           /\ _can_place(w, v_row, v_col, DOWN)
                        THEN << [vert_idx |-> i - 1, word |-> w,
                                 row |-> v_row, col |-> v_col] >>
                        ELSE << >>
            IN  IF 4 <= Len(w) /\ Len(w) <= 6
                THEN Flatten([j1 \in 1..Len(w) |->
                         Flatten([k1 \in 1..Len(hw) |-> try(j1 - 1, k1 - 1)])])
                ELSE << >>
        all == Flatten([i \in 1..Len(selected) |-> forWord(i)])
    IN  IF all = << >> THEN None ELSE all[1]

\* Step 3, second half.
SeedVertical ==
    /\ pc = "seed_vertical"
    /\ \E v \in {VerticalSeed} :
           IF v # None
           THEN /\ _place_word(v.word, v.row, v.col, DOWN)
                /\ EnterMainLoop(SubSeq(selected, 1, v.vert_idx)
                                   \o SubSeq(selected, v.vert_idx + 2, Len(selected)),
                                 Len(placed) + 1)
           ELSE /\ EnterMainLoop(selected, Len(placed))
                /\ UNCHANGED <<grid, placed, used_words, letter_index,
                               min_row, max_row, min_col, max_col>>
    /\ UNCHANGED <<config, candidates, horz, by_length, passes, result, prev, solver_vars, pipeline_vars>>

LoopCondition == selected # << >> /\ failures < max_failures /\ placed_count < 20

\* Step 4: one iteration of the main loop.
MainLoopStep ==
    /\ pc = "main_loop"
    /\ LoopCondition
    /\ \E best \in {_find_best_placement(selected)} :
           LET differs(sw) == sw.word # best.word
           IN
           IF best # None
           THEN /\ _place_word(best.word, best.row, best.col, best.direction)
                /\ selected' = SelectSeq(selected, differs)
                /\ placed_count' = placed_count + 1
                /\ failures' = 0
           ELSE /\ failures' = failures + 1
                /\ selected' = IF Len(selected) > 1
                               THEN Tail(selected) \o <<Head(selected)>>
                               ELSE selected
                /\ UNCHANGED <<grid, placed, used_words, letter_index,
                               min_row, max_row, min_col, max_col, placed_count>>
    /\ UNCHANGED <<config, candidates, pc, horz, max_failures, by_length,
                   passes, result, prev, solver_vars, pipeline_vars>>

\* Step 5, entry of _fill_gaps: all_fill_words = short_words + candidates,
\* bucketed by length.
FillGapsStart ==
    /\ pc = "main_loop"
    /\ ~LoopCondition
    /\ by_length' = ByLength(_collect_short_words(candidates) \o candidates)
    /\ passes' = 0
    /\ pc' = "fill_gaps"
    /\ UNCHANGED <<builder_vars, candidates, selected, horz, placed_count,
                   failures, max_failures, result, prev, solver_vars, pipeline_vars>>

\* Faulty variant of NextFill: the pass loop runs eleven times.
NextFill_with_eleven_passes ==
    IF passes >= 11 THEN None
    ELSE FirstFill(_find_gaps, 1)

\* What one iteration of "for _ in range(10)" places, None when the loop is
\* over (ten passes done, no gap, or a pass that filled nothing).
NextFill ==
    IF passes >= 10 THEN None
    ELSE FirstFill(_find_gaps, 1)

\* One pass of _fill_gaps that places a word.
FillPass ==
    /\ pc = "fill_gaps"
    /\ \E f \in {NextFill} :
           /\ f # None
           /\ _place_word(f.word, f.gap.row, f.gap.col, f.gap.direction)
    /\ passes' = passes + 1
    /\ UNCHANGED <<config, candidates, pc, selected, horz, placed_count,
                   failures, max_failures, by_length, result, prev, solver_vars, pipeline_vars>>

\* The pass loop ends and build returns its BuildResult.
Return ==
    /\ pc = "fill_gaps"
    /\ NextFill = None
    /\ result' = BuildResult
    /\ pc' = "done"
    /\ UNCHANGED <<builder_vars, candidates, selected, horz, placed_count,
                   failures, max_failures, by_length, passes, prev, solver_vars, pipeline_vars>>

\* A second, fresh GridBuilder is constructed with the same configuration
\* for the same candidate list; the first builder's input and result are
\* remembered in prev.
NewBuilder ==
    /\ pc = "done"
    /\ prev = None
    /\ prev' = [config |-> config, candidates |-> candidates, result |-> result]
    /\ LET b == __init__(config)
       IN  /\ config' = b.config
           /\ grid' = b.grid
           /\ placed' = b.placed
           /\ used_words' = b.used_words
           /\ letter_index' = b.letter_index
           /\ min_row' = b.min_row
           /\ max_row' = b.max_row
           /\ min_col' = b.min_col
           /\ max_col' = b.max_col
    /\ pc' = "start"
    /\ selected' = << >>
    /\ horz' = None
    /\ placed_count' = 0
    /\ failures' = 0
    /\ max_failures' = 0
    /\ by_length' = << >>
    /\ passes' = 0
    /\ result' = None
    /\ UNCHANGED <<candidates, solver_vars, pipeline_vars>>

\* No call of generate or of _assign_numbers is in progress, and the
\* HybridLexicon is one constructed without words.
PipelineIdle ==
    /\ request = None
    /\ attempt = 0
    /\ gen_pc = "idle"
    /\ last_outcome = None
    /\ gen_result = None
    /\ assign_grid = << >>
    /\ assign_pc = "idle"
    /\ _primary = [_words |-> {}, _by_length |-> << >>, _pattern_cache |-> << >>]
    /\ _fallback = [_words |-> {}, _by_length |-> << >>, _pattern_cache |-> << >>]
    /\ match_call = None

\* No call of solve is in progress.
SolverIdle ==
    /\ lexicon = {}
    /\ solve_grid = << >>
    /\ solve_pc = "idle"
    /\ slots = << >>
    /\ crossings = << >>
    /\ problem = << >>
    /\ solve_result = None

Init ==
    /\ prev = None
    /\ pc = "start"
    /\ \E cfg \in [max_rows : Sizes, max_cols : Sizes, seed : Seeds] :
         LET b == __init__(cfg)
         IN  /\ config = b.config
             /\ grid = b.grid
             /\ placed = b.placed
             /\ used_words = b.used_words
             /\ letter_index = b.letter_index
             /\ min_row = b.min_row
             /\ max_row = b.max_row
             /\ min_col = b.min_col
             /\ max_col = b.max_col
    /\ candidates \in CandidateLists
    /\ selected = << >>
    /\ horz = None
    /\ placed_count = 0
    /\ failures = 0
    /\ max_failures = 0
    /\ by_length = << >>
    /\ passes = 0
    /\ result = None
    /\ SolverIdle
    /\ PipelineIdle

Next ==
    \/ BuildStart
    \/ SeedHorizontal
    \/ SeedVertical
    \/ MainLoopStep
    \/ FillGapsStart
    \/ FillPass
    \/ Return
    \/ NewBuilder

Spec == Init /\ [][Next]_vars

\* ------------------------------------------------------------------------
\* Builds whose main loop has several placements to choose from
\* ------------------------------------------------------------------------

ARBRE == <<"A","R","B","R","E">>
EAU == <<"E","A","U">>

\* Candidate words with letters in common at places that give placements of
\* equal score: EAU crosses OMBRE and ARBRE in more than one way at the same
\* distance from the centre, and AIR and EAU cross ARBRE at the same
\* distance.
CrossingPool == {OMBRE, ARBRE, EAU, AIR}

CrossingLists == SeqsUpTo(CrossingPool, MaxCands)

\* A fresh builder for one of the configurations cfgs, about to build from
\* one of the candidate lists.
FreshBuild(cfgs, lists) ==
    /\ prev = None
    /\ pc = "start"
    /\ \E cfg \in cfgs :
         LET b == __init__(cfg)
         IN  /\ config = b.config
             /\ grid = b.grid
             /\ placed = b.placed
             /\ used_words = b.used_words
             /\ letter_index = b.letter_index
             /\ min_row = b.min_row
             /\ max_row = b.max_row
             /\ min_col = b.min_col
             /\ max_col = b.max_col
    /\ candidates \in lists
    /\ selected = << >>
    /\ horz = None
    /\ placed_count = 0
    /\ failures = 0
    /\ max_failures = 0
    /\ by_length = << >>
    /\ passes = 0
    /\ result = None
    /\ SolverIdle
    /\ PipelineIdle

InitGreedy ==
    FreshBuild([max_rows : Sizes, max_cols : Sizes, seed : Seeds], CrossingLists)

SpecGreedy == InitGreedy /\ [][Next]_vars

\* ------------------------------------------------------------------------
\* Builds with more candidates than the main loop places
\* ------------------------------------------------------------------------

\* A candidate list of 26 words of 3 to 8 letters, all of which are selected.
LongList ==
  <<
    <<"S","E","A","U">>, <<"O","R","A","N","G","E">>,
    <<"T","A","B","L","E","A","U">>, <<"O","S","E","R">>,
    <<"R","O","S","E">>, <<"O","R","D","I","N","A","I","R">>,
    <<"S","O","L","E","I","L","S">>, <<"O","M","B","R","E">>,
    <<"N","O","I","R","E">>, <<"M","A","R","E">>,
    <<"V","O","I","T","U","R","E">>, <<"M","E","R">>,
    <<"M","O","N","T","A","G","N","E">>, <<"P","A","R","T","I","E","S">>,
    <<"I","L","E">>, <<"A","R","T">>, <<"A","I","R">>, <<"A","R","M","E">>,
    <<"C","A","R","T","A","B","L","E">>, <<"A","R","B","R","E">>,
    <<"A","I","D","E">>, <<"E","C","R","A","N">>, <<"L","I","V","R","E">>,
    <<"E","T","O","I","L","E">>, <<"E","T","E">>, <<"B","A","S">>
  >>

\* BuilderConfig.max_rows / max_cols values with room for twenty words and more.
LongSizes == {14, 16}

InitLong ==
    FreshBuild([max_rows : LongSizes, max_cols : LongSizes, seed : Seeds], {LongList})

SpecLong == InitLong /\ [][Next]_vars

\* ------------------------------------------------------------------------
\* A second call of build on the same GridBuilder
\* ------------------------------------------------------------------------

\* build is called again on the builder that has finished a build, with the
\* same candidate list: the locals of the call are new, the fields of the
\* builder are what the first call left (build assigns self.grid only, in
\* its step 2); the first call's input and result are remembered in prev.
BuildAgain ==
    /\ pc = "done"
    /\ prev = None
    /\ prev' = [config |-> config, candidates |-> candidates, result |-> result]
    /\ pc' = "start"
    /\ selected' = << >>
    /\ horz' = None
    /\ placed_count' = 0
    /\ failures' = 0
    /\ max_failures' = 0
    /\ by_length' = << >>
    /\ passes' = 0
    /\ result' = None
    /\ UNCHANGED <<builder_vars, candidates, solver_vars, pipeline_vars>>

NextReuse ==
    \/ BuildStart
    \/ SeedHorizontal
    \/ SeedVertical
    \/ MainLoopStep
    \/ FillGapsStart
    \/ FillPass
    \/ Return
    \/ BuildAgain

SpecReuse == Init /\ [][NextReuse]_vars

\* ------------------------------------------------------------------------
\* A retry with another seed
\* ------------------------------------------------------------------------

\* A second, fresh GridBuilder is constructed for the same candidate list
\* with the same max_rows and max_cols and the seed of the next attempt
\* (_generate_attempt passes the timestamp plus the attempt number); the
\* first builder's input and result are remembered in prev.
RetryBuilder ==
    /\ pc = "done"
    /\ prev = None
    /\ prev' = [config |-> config, candidates |-> candidates, result |-> result]
    /\ LET b == __init__([config EXCEPT !.seed = config.seed + 1])
       IN  /\ config' = b.config
           /\ grid' = b.grid
           /\ placed' = b.placed
           /\ used_words' = b.used_words
           /\ letter_index' = b.letter_index
           /\ min_row' = b.min_row
           /\ max_row' = b.max_row
           /\ min_col' = b.min_col
           /\ max_col' = b.max_col
    /\ pc' = "start"
    /\ selected' = << >>
    /\ horz' = None
    /\ placed_count' = 0
    /\ failures' = 0
    /\ max_failures' = 0
    /\ by_length' = << >>
    /\ passes' = 0
    /\ result' = None
    /\ UNCHANGED <<candidates, solver_vars, pipeline_vars>>

NextRetry ==
    \/ BuildStart
    \/ SeedHorizontal
    \/ SeedVertical
    \/ MainLoopStep
    \/ FillGapsStart
    \/ FillPass
    \/ Return
    \/ RetryBuilder

SpecRetry == Init /\ [][NextRetry]_vars

\* ------------------------------------------------------------------------
\* Solver.solve, step by step
\* ------------------------------------------------------------------------

\* Most words a lexicon handed to the solver holds.
MaxLexicon == 3

\* Lexicon words and grids handed to the solver: every lexicon of up to
\* MaxLexicon of a few two- and three-letter words, every 3 x 3 grid of BLOCK
\* cells and LETTER cells without a solution, the corner cell also as a
\* LETTER cell that already carries a solution.
LexiconWords == {<<"A","B">>, <<"B","A">>, <<"A","B","A">>, <<"B","A","B">>,
                 <<"B","A","A">>}
Lexicons == {l \in SUBSET LexiconWords : Cardinality(l) <= MaxLexicon}
SolverRows == 0..2
SolverCols == 0..2
CellChoices(r, c) ==
    {Cell(BLOCK, NoLetter), Cell(LETTER, NoLetter)}
        \cup (IF r = 0 /\ c = 0 THEN {Cell(LETTER, "A"), Cell(LETTER, "B")} ELSE {})
RowChoices(r) == {row \in [SolverCols -> UNION {CellChoices(r, c) : c \in SolverCols}] :
                     \A c \in SolverCols : row[c] \in CellChoices(r, c)}
SolverGrids == {g \in [SolverRows -> UNION {RowChoices(r) : r \in SolverRows}] :
                   \A r \in SolverRows : g[r] \in RowChoices(r)}

\* solve() up to the variable loop: no slot ends the call, otherwise the
\* crossings are computed and the CSP problem is created.
DiscoverSlots ==
    /\ solve_pc = "start"
    /\ \E found \in {_discover_slots(solve_grid)} :
          /\ slots' = found
          /\ IF found = << >>
             THEN /\ solve_result' = SolveResult(FALSE, << >>, << >>,
                                                   ErrorText("No slots found in grid", << >>))
                  /\ solve_pc' = "done"
                  /\ UNCHANGED crossings
             ELSE /\ crossings' = _find_crossings(found, solve_grid)
                  /\ solve_pc' = "add_variable"
                  /\ UNCHANGED solve_result
    /\ UNCHANGED <<lexicon, solve_grid, problem>>
    /\ UNCHANGED <<builder_vars, build_vars, pipeline_vars>>

\* Faulty variant of the variable loop: a slot without words gets an empty
\* domain and the loop goes on.
AddVariable_keeping_empty_domains ==
    /\ solve_pc = "add_variable"
    /\ Len(problem) < Len(slots)
    /\ problem' = Append(problem, match(pattern(slots[Len(problem) + 1], solve_grid)))
    /\ UNCHANGED <<lexicon, solve_grid, solve_pc, slots, crossings, solve_result>>
    /\ UNCHANGED <<builder_vars, build_vars, pipeline_vars>>

\* One iteration of "for slot in slots": the words matching the slot's
\* pattern become its domain; a slot without words ends the call.
AddVariable ==
    /\ solve_pc = "add_variable"
    /\ Len(problem) < Len(slots)
    /\ LET slot == slots[Len(problem) + 1]
       IN  \E words \in {match(pattern(slot, solve_grid))} :
              IF words = {}
              THEN /\ solve_result' =
                        SolveResult(FALSE, << >>, << >>,
                            ErrorText("No words found for slot {slot.id} with pattern '{pattern}'",
                                      <<slot.id, pattern(slot, solve_grid)>>))
                   /\ solve_pc' = "done"
                   /\ UNCHANGED problem
              ELSE /\ problem' = Append(problem, words)
                   /\ UNCHANGED <<solve_pc, solve_result>>
    /\ UNCHANGED <<lexicon, solve_grid, slots, crossings>>
    /\ UNCHANGED <<builder_vars, build_vars, pipeline_vars>>

\* The constraints are added, getSolution() is called and solve returns.
Solve ==
    /\ solve_pc = "add_variable"
    /\ Len(problem) = Len(slots)
    /\ \E solutions \in {getSolution} :
          IF solutions = {}
          THEN solve_result' = SolveResult(FALSE, << >>, << >>,
                                           ErrorText("No solution found", << >>))
          ELSE \E solution \in solutions :
                  solve_result' = SolveResult(TRUE, _fill_grid(solve_grid, slots, solution),
                                              solution, None)
    /\ solve_pc' = "done"
    /\ UNCHANGED <<lexicon, solve_grid, slots, crossings, problem>>
    /\ UNCHANGED <<builder_vars, build_vars, pipeline_vars>>

\* A Solver constructed over a lexicon, and a grid handed to solve(); no
\* builder is at work.
InitSolver ==
    /\ prev = None
    /\ pc = "idle"
    /\ LET b == __init__([max_rows |-> 9, max_cols |-> 9, seed |-> 42])
       IN  /\ config = b.config
           /\ grid = b.grid
           /\ placed = b.placed
           /\ used_words = b.used_words
           /\ letter_index = b.letter_index
           /\ min_row = b.min_row
           /\ max_row = b.max_row
           /\ min_col = b.min_col
           /\ max_col = b.max_col
    /\ candidates = << >>
    /\ selected = << >>
    /\ horz = None
    /\ placed_count = 0
    /\ failures = 0
    /\ max_failures = 0
    /\ by_length = << >>
    /\ passes = 0
    /\ result = None
    /\ lexicon \in Lexicons
    /\ solve_grid \in SolverGrids
    /\ solve_pc = "start"
    /\ slots = << >>
    /\ crossings = << >>
    /\ problem = << >>
    /\ solve_result = None
    /\ PipelineIdle

NextSolver ==
    \/ DiscoverSlots
    \/ AddVariable
    \/ Solve

SpecSolver == InitSolver /\ [][NextSolver]_vars

\* ------------------------------------------------------------------------
\* Orchestrator._assign_numbers (orchestrator.py)
\* ------------------------------------------------------------------------

\* No builder is at work.
BuilderIdle ==
    /\ prev = None
    /\ pc = "idle"
    /\ LET b == __init__([max_rows |-> 9, max_cols |-> 9, seed |-> 42])
       IN  /\ config = b.config
           /\ grid = b.grid
           /\ placed = b.placed
           /\ used_words = b.used_words
           /\ letter_index = b.letter_index
           /\ min_row = b.min_row
           /\ max_row = b.max_row
           /\ min_col = b.min_col
           /\ max_col = b.max_col
    /\ candidates = << >>
    /\ selected = << >>
    /\ horz = None
    /\ placed_count = 0
    /\ failures = 0
    /\ max_failures = 0
    /\ by_length = << >>
    /\ passes = 0
    /\ result = None

\* Faulty variant of _assign_numbers: the test that the next cell is a
\* letter cell is left out, so every letter cell without a letter cell
\* before it in its row or column is numbered.
_assign_numbers_without_next_cell_test(g, found) ==
    LET rows == GridRows(g)
        cols == GridCols(g)
        starts_across(row, col) == col = 0 \/ ~is_letter(g[row][col - 1])
        starts_down(row, col) == row = 0 \/ ~is_letter(g[row - 1][col])
        starts(row, col) == /\ is_letter(g[row][col])
                            /\ (starts_across(row, col) \/ starts_down(row, col))
        earlier(row, col) == {rc \in (0..(rows - 1)) \X (0..(cols - 1)) :
                                /\ rc[1] < row \/ (rc[1] = row /\ rc[2] < col)
                                /\ starts(rc[1], rc[2])}
    IN  [row \in DOMAIN g |-> [col \in DOMAIN g[row] |->
            IF starts(row, col)
            THEN [g[row][col] EXCEPT !.number = 1 + Cardinality(earlier(row, col))]
            ELSE g[row][col]]]

\* _assign_numbers: the grid is scanned row by row; a letter cell that
\* starts an across or a down entry gets the next number, counted from 1,
\* which is the number of such cells scanned before it plus 1.  The cells
\* are numbered in place; the slots argument is not used.
_assign_numbers(g, found) ==
    LET rows == GridRows(g)
        cols == GridCols(g)
        starts_across(row, col) == /\ col = 0 \/ ~is_letter(g[row][col - 1])
                                   /\ col < cols - 1 /\ is_letter(g[row][col + 1])
        starts_down(row, col) == /\ row = 0 \/ ~is_letter(g[row - 1][col])
                                 /\ row < rows - 1 /\ is_letter(g[row + 1][col])
        starts(row, col) == /\ is_letter(g[row][col])
                            /\ (starts_across(row, col) \/ starts_down(row, col))
        earlier(row, col) == {rc \in (0..(rows - 1)) \X (0..(cols - 1)) :
                                /\ rc[1] < row \/ (rc[1] = row /\ rc[2] < col)
                                /\ starts(rc[1], rc[2])}
    IN  [row \in DOMAIN g |-> [col \in DOMAIN g[row] |->
            IF starts(row, col)
            THEN [g[row][col] EXCEPT !.number = 1 + Cardinality(earlier(row, col))]
            ELSE g[row][col]]]

\* Grids handed to _assign_numbers: every grid of 3 rows and 4 columns of
\* BLOCK cells and LETTER cells that carry a solution, and the grid without
\* rows.
NumberingRows == 0..2
NumberingCols == 0..3
NumberingGrids ==
    [NumberingRows -> [NumberingCols -> {Cell(BLOCK, NoLetter), Cell(LETTER, "A")}]]
        \cup {<< >>}

\* One call of _assign_numbers with the slots of the grid, as
\* _generate_attempt makes it.
AssignNumbers ==
    /\ assign_pc = "start"
    /\ assign_grid' = _assign_numbers(assign_grid, _discover_slots(assign_grid))
    /\ assign_pc' = "done"
    /\ UNCHANGED <<builder_vars, build_vars, solver_vars, generate_vars, hybrid_vars>>

InitNumbering ==
    /\ BuilderIdle
    /\ SolverIdle
    /\ request = None
    /\ attempt = 0
    /\ gen_pc = "idle"
    /\ last_outcome = None
    /\ gen_result = None
    /\ assign_grid \in NumberingGrids
    /\ assign_pc = "start"
    /\ _primary = [_words |-> {}, _by_length |-> << >>, _pattern_cache |-> << >>]
    /\ _fallback = [_words |-> {}, _by_length |-> << >>, _pattern_cache |-> << >>]
    /\ match_call = None

NextNumbering == AssignNumbers

SpecNumbering == InitNumbering /\ [][NextNumbering]_vars

\* ------------------------------------------------------------------------
\* Orchestrator.generate and _generate_attempt (orchestrator.py)
\* ------------------------------------------------------------------------

GenerateResult(success, bundle, error) ==
    [success |-> success, bundle |-> bundle, error |-> error]

\* GenerateRequest.max_attempts values: none, one, and up to the default 3.
AttemptLimits == {0, 1, 2, 3}

\* GenerateRequest.max_size values handed to BuilderConfig: the minimum
\* working size of the builder and a size with room for more words.
MaxSizes == {7, 9}

\* The words lexicon.words() hands to build: a list of different words in
\* any order (it is the list of a set).
ThemePool == {GROUPE, CAUSE, OMBRE}
WordLists ==
    {l \in SeqsUpTo(ThemePool, Cardinality(ThemePool)) :
        \A i \in 1..Len(l) : \A j \in 1..Len(l) : i # j => l[i] # l[j]}

\* Exceptions the theme and candidate generators let through: the LLMErrors
\* LLMClient.complete raises, given by their message.
Exceptions == {"Max retries exceeded: Empty response from LLM",
               "LLM request failed: Connection error."}

\* str(e) of an exception: its message.
str(e) == ErrorText(e, << >>)

\* How an attempt ended: by raising e, or by returning a GenerateResult.
Raised(e) == [raised |-> TRUE, exception |-> e, result |-> None]
Returned(res) == [raised |-> FALSE, exception |-> "", result |-> res]

\* _generate_clues: one Clue per answer with number 0, the across and the
\* down clues each sorted by start position (row, then column).  The prompt,
\* text that the clue generator or the fallback supplies, is left out.
_generate_clues(answers) ==
    LET clue(key) == [id |-> key, direction |-> answers[key].direction, number |-> 0,
                      answer |-> answers[key].answer,
                      start |-> [row |-> answers[key].row, col |-> answers[key].col],
                      length |-> answers[key].length]
        keys(direction) == {key \in DOMAIN answers : answers[key].direction = direction}
        before(k1, k2) == \/ answers[k1].row < answers[k2].row
                          \/ (answers[k1].row = answers[k2].row
                                /\ answers[k1].col < answers[k2].col)
        sorted(direction) ==
            [n \in 1..Cardinality(keys(direction)) |->
                clue(CHOOSE key \in keys(direction) :
                        Cardinality({k \in keys(direction) : before(k, key)}) = n - 1)]
    IN  [across |-> sorted(ACROSS), down |-> sorted(DOWN)]

\* any(cell.is_letter() and not cell.solution ...) over a grid.
has_unfilled(g) ==
    \E r \in DOMAIN g : \E c \in DOMAIN g[r] :
        is_letter(g[r][c]) /\ g[r][c].solution = NoLetter

\* Steps 6 and 7 of an attempt: answers, clues, numbering of the grid in
\* place, the puzzle and the successful GenerateResult.  Of the Puzzle and
\* the DraftBundle, grid and clues are kept.
AttemptSuccess(g, found) ==
    LET answers == _extract_answers(g, found)
        clues == _generate_clues(answers)
        numbered == _assign_numbers(g, found)
    IN  GenerateResult(TRUE, [puzzle |-> [grid |-> numbered, clues |-> clues]], None)

\* generate, after _generate_attempt has returned res: a successful result
\* is returned at once, after any other the loop goes on.
AttemptReturned(res) ==
    /\ last_outcome' = Returned(res)
    /\ IF res.success
       THEN gen_result' = res /\ gen_pc' = "returned"
       ELSE gen_pc' = "loop" /\ UNCHANGED gen_result

\* Faulty variant of the except clause: the exception of the last attempt
\* is raised again instead of being turned into a result.
AttemptRaised_reraising_last(e) ==
    /\ last_outcome' = Raised(e)
    /\ IF attempt' = request.max_attempts
       THEN gen_pc' = "raised" /\ UNCHANGED gen_result
       ELSE gen_pc' = "loop" /\ UNCHANGED gen_result

\* generate, after _generate_attempt has raised e: on the last attempt the
\* failure result with str(e) is returned, otherwise the loop goes on.
AttemptRaised(e) ==
    /\ last_outcome' = Raised(e)
    /\ IF attempt' = request.max_attempts
       THEN /\ gen_result' = GenerateResult(FALSE, None, str(e))
            /\ gen_pc' = "returned"
       ELSE gen_pc' = "loop" /\ UNCHANGED gen_result

\* The next attempt starts and the theme or the candidate generator raises.
AttemptRaises ==
    /\ gen_pc = "loop"
    /\ attempt < request.max_attempts
    /\ attempt' = attempt + 1
    /\ \E e \in Exceptions : AttemptRaised(e)
    /\ UNCHANGED <<request, builder_vars, build_vars, solver_vars, numbering_vars,
                   hybrid_vars>>

\* The next attempt starts; theme and candidates are generated, a fresh
\* GridBuilder of the requested size is constructed and build is called
\* with the words of the lexicon.
AttemptBuilds ==
    /\ gen_pc = "loop"
    /\ attempt < request.max_attempts
    /\ attempt' = attempt + 1
    /\ gen_pc' = "build"
    /\ candidates' \in WordLists
    /\ \E seed \in Seeds :
          LET b == __init__([max_rows |-> request.max_size,
                             max_cols |-> request.max_size, seed |-> seed])
          IN  /\ config' = b.config
              /\ grid' = b.grid
              /\ placed' = b.placed
              /\ used_words' = b.used_words
              /\ letter_index' = b.letter_index
              /\ min_row' = b.min_row
              /\ max_row' = b.max_row
              /\ min_col' = b.min_col
              /\ max_col' = b.max_col
    /\ pc' = "start"
    /\ selected' = << >>
    /\ horz' = None
    /\ placed_count' = 0
    /\ failures' = 0
    /\ max_failures' = 0
    /\ by_length' = << >>
    /\ passes' = 0
    /\ result' = None
    /\ UNCHANGED <<prev, request, last_outcome, gen_result, solver_vars,
                   numbering_vars, hybrid_vars>>

\* build has returned.  A failed build ends the attempt with a failure
\* result.  Otherwise the slots are discovered; a grid with an unfilled
\* letter cell is handed to Solver.solve, any other grid goes on to clues and
\* numbering and the attempt returns its successful result.
AttemptAfterBuild ==
    /\ gen_pc = "build"
    /\ pc = "done"
    /\ IF ~result.success
       THEN /\ AttemptReturned(GenerateResult(FALSE, None,
                    ErrorText("Grid building failed - not enough words placed", << >>)))
            /\ UNCHANGED solver_vars
       ELSE IF has_unfilled(result.grid)
       THEN /\ gen_pc' = "solve"
            /\ lexicon' = Range(candidates)
            /\ solve_grid' = result.grid
            /\ solve_pc' = "start"
            /\ slots' = << >>
            /\ crossings' = << >>
            /\ problem' = << >>
            /\ solve_result' = None
            /\ UNCHANGED <<last_outcome, gen_result>>
       ELSE /\ AttemptReturned(AttemptSuccess(result.grid, _discover_slots(result.grid)))
            /\ UNCHANGED solver_vars
    /\ UNCHANGED <<request, attempt, builder_vars, build_vars, numbering_vars,
                   hybrid_vars>>

\* solve has returned.  A failed solve ends the attempt with a failure
\* result that quotes the solver's error; otherwise the filled grid goes on
\* to clues and numbering.  No grid that build returns has an unfilled
\* letter cell, so no behaviour of generate takes this step or the steps of
\* solve before it.
AttemptAfterSolve ==
    /\ gen_pc = "solve"
    /\ solve_pc = "done"
    /\ IF ~solve_result.success
       THEN AttemptReturned(GenerateResult(FALSE, None,
                ErrorText("CSP solving failed: {solve_result.error}",
                          <<solve_result.error>>)))
       ELSE AttemptReturned(AttemptSuccess(solve_result.grid,
                                           _discover_slots(result.grid)))
    /\ UNCHANGED <<request, attempt, builder_vars, build_vars, solver_vars,
                   numbering_vars, hybrid_vars>>

\* The loop has run max_attempts attempts and none returned from generate.
LoopExit ==
    /\ gen_pc = "loop"
    /\ attempt >= request.max_attempts
    /\ gen_result' = GenerateResult(FALSE, None, ErrorText("Max attempts exceeded", << >>))
    /\ gen_pc' = "returned"
    /\ UNCHANGED <<request, attempt, last_outcome, builder_vars, build_vars,
                   solver_vars, numbering_vars, hybrid_vars>>

\* generate has been called with a request; no attempt has started.
InitOrchestrator ==
    /\ BuilderIdle
    /\ SolverIdle
    /\ request \in [max_attempts : AttemptLimits, max_size : MaxSizes]
    /\ attempt = 0
    /\ gen_pc = "loop"
    /\ last_outcome = None
    /\ gen_result = None
    /\ assign_grid = << >>
    /\ assign_pc = "idle"
    /\ _primary = [_words |-> {}, _by_length |-> << >>, _pattern_cache |-> << >>]
    /\ _fallback = [_words |-> {}, _by_length |-> << >>, _pattern_cache |-> << >>]
    /\ match_call = None

NextOrchestrator ==
    \/ AttemptRaises
    \/ AttemptBuilds
    \/ BuildStart
    \/ SeedHorizontal
    \/ SeedVertical
    \/ MainLoopStep
    \/ FillGapsStart
    \/ FillPass
    \/ Return
    \/ AttemptAfterBuild
    \/ LoopExit

SpecOrchestrator == InitOrchestrator /\ [][NextOrchestrator]_vars

\* ------------------------------------------------------------------------
\* MemoryLexicon and HybridLexicon (lexicon.py)
\* ------------------------------------------------------------------------

\* Most words in one list handed to add_words, add_fallback_words,
\* set_primary_words or the constructor.
MaxWords == 2

\* Words as callers spell them, character by character: upper case, lower
\* case, with a hyphen, and a word of one letter; the word lists handed in
\* hold up to MaxWords different words.
RawWords == {<<"A","B">>, <<"b","a">>, <<"A","-","B","A">>, <<"a">>}
WordArgs ==
    {l \in SeqsUpTo(RawWords, MaxWords) :
        \A i \in 1..Len(l) : \A j \in 1..Len(l) : i # j => l[i] # l[j]}

\* Patterns handed to match.
Patterns == {<<".",".">>, <<"A",".">>, <<".","B","A">>}

\* normalize_fr on the characters above: characters that are not letters
\* are dropped, letters are put in upper case.
normalize_fr(text) ==
    LET isalpha(ch) == ch \in Letters \cup {"a", "b"}
        upper(ch) == CASE ch = "a" -> "A"
                       [] ch = "b" -> "B"
                       [] OTHER -> ch
    IN  Flatten([k \in 1..Len(text) |->
            IF isalpha(text[k]) THEN <<upper(text[k])>> ELSE << >>])

\* Faulty variant of add_words: the pattern cache is left as it is.
MemoryLexicon_add_words_keeping_cache(lex, words) ==
    LET normalized == {normalize_fr(words[k]) : k \in 1..Len(words)}
        kept == {w \in normalized : Len(w) >= 2}
        all == lex._words \cup kept
        lengths == {Len(w) : w \in kept} \cup DOMAIN lex._by_length
    IN  [_words |-> all,
         _by_length |-> [n \in lengths |-> {w \in all : Len(w) = n}],
         _pattern_cache |-> lex._pattern_cache]

\* MemoryLexicon.add_words: every word is normalised and, when it has two
\* letters or more, added to _words and to the set of its length; then the
\* pattern cache is cleared.
MemoryLexicon_add_words(lex, words) ==
    LET normalized == {normalize_fr(words[k]) : k \in 1..Len(words)}
        kept == {w \in normalized : Len(w) >= 2}
        all == lex._words \cup kept
        lengths == {Len(w) : w \in kept} \cup DOMAIN lex._by_length
    IN  [_words |-> all,
         _by_length |-> [n \in lengths |-> {w \in all : Len(w) = n}],
         _pattern_cache |-> << >>]

\* MemoryLexicon.__init__: empty fields, then add_words when words are given.
MemoryLexicon(words) ==
    LET empty == [_words |-> {}, _by_length |-> << >>, _pattern_cache |-> << >>]
    IN  IF words # << >> THEN MemoryLexicon_add_words(empty, words) ELSE empty

\* The lists with the elements of a set, each once.
Orderings(S) ==
    {l \in [1..Cardinality(S) -> S] :
        \A i \in 1..Cardinality(S) : \A j \in 1..Cardinality(S) : i # j => l[i] # l[j]}

\* Faulty variant of match: the pattern is escaped before it is compiled, so
\* a dot matches only a dot.
MemoryLexicon_match_with_escaped_pattern(lex, p) ==
    LET of_length == IF Len(p) \in DOMAIN lex._by_length
                     THEN lex._by_length[Len(p)] ELSE {}
        matching == {w \in of_length : \A k \in 1..Len(p) : p[k] = w[k]}
    IN  IF p \in DOMAIN lex._pattern_cache
        THEN {[matches |-> lex._pattern_cache[p], lex |-> lex]}
        ELSE IF of_length = {}
        THEN {[matches |-> << >>, lex |-> lex]}
        ELSE {[matches |-> l,
               lex |-> [lex EXCEPT !._pattern_cache = (p :> l) @@ lex._pattern_cache]] :
                 l \in Orderings(matching)}

\* MemoryLexicon.match: the outcomes of one call, each the returned list and
\* the lexicon after the call.  A cached list is returned as it is; without
\* words of the pattern's length the empty list is returned and nothing is
\* cached; otherwise the words of that length that the regular expression
\* matches are listed, cached and returned.  The list is built by iterating
\* a set of strings, whose order is not fixed, so every order is an outcome.
MemoryLexicon_match(lex, p) ==
    LET of_length == IF Len(p) \in DOMAIN lex._by_length
                     THEN lex._by_length[Len(p)] ELSE {}
        matching == {w \in of_length :
                        \A k \in 1..Len(p) : p[k] = "." \/ p[k] = w[k]}
    IN  IF p \in DOMAIN lex._pattern_cache
        THEN {[matches |-> lex._pattern_cache[p], lex |-> lex]}
        ELSE IF of_length = {}
        THEN {[matches |-> << >>, lex |-> lex]}
        ELSE {[matches |-> l,
               lex |-> [lex EXCEPT !._pattern_cache = (p :> l) @@ lex._pattern_cache]] :
                 l \in Orderings(matching)}

\* Faulty variant of the merge in HybridLexicon.match: the fallback matches
\* are appended without the test against seen.
HybridLexicon_match_without_seen_test(primary_matches, fallback_matches) ==
    primary_matches \o fallback_matches

\* HybridLexicon.match, after the two tiers have answered: a copy of the
\* primary matches, then the fallback matches not seen before, in order.
HybridLexicon_match(primary_matches, fallback_matches) ==
    LET unseen(k) == /\ fallback_matches[k] \notin Range(primary_matches)
                     /\ \A j \in 1..(k - 1) : fallback_matches[j] # fallback_matches[k]
        idx == SelectSeq([k \in 1..Len(fallback_matches) |-> k], unseen)
    IN  primary_matches \o [n \in 1..Len(idx) |-> fallback_matches[idx[n]]]

\* The record of a match call that was made before words were added.
Stale(call) == IF call = None THEN None ELSE [call EXCEPT !.stale = TRUE]

\* HybridLexicon.add_words: the words go to the primary tier.
add_words ==
    /\ \E words \in WordArgs : _primary' = MemoryLexicon_add_words(_primary, words)
    /\ match_call' = Stale(match_call)
    /\ UNCHANGED <<_fallback, builder_vars, build_vars, solver_vars, generate_vars,
                   numbering_vars>>

\* HybridLexicon.add_fallback_words: the words go to the fallback tier.
add_fallback_words ==
    /\ \E words \in WordArgs : _fallback' = MemoryLexicon_add_words(_fallback, words)
    /\ match_call' = Stale(match_call)
    /\ UNCHANGED <<_primary, builder_vars, build_vars, solver_vars, generate_vars,
                   numbering_vars>>

\* HybridLexicon.set_primary_words: a new MemoryLexicon replaces the primary
\* tier.
set_primary_words ==
    /\ \E words \in WordArgs : _primary' = MemoryLexicon(words)
    /\ match_call' = Stale(match_call)
    /\ UNCHANGED <<_fallback, builder_vars, build_vars, solver_vars, generate_vars,
                   numbering_vars>>

\* HybridLexicon.match(p): the primary tier is asked, then the fallback
\* tier, and the merged list is returned.  The record of the call also says
\* whether the primary tier answered from its cache and what the call before
\* returned when it had the same pattern.
HybridMatch ==
    \E p \in Patterns :
    \E first \in MemoryLexicon_match(_primary, p) :
    \E second \in MemoryLexicon_match(_fallback, p) :
        /\ _primary' = first.lex
        /\ _fallback' = second.lex
        /\ match_call' =
              [pattern |-> p,
               primary_matches |-> first.matches,
               fallback_matches |-> second.matches,
               result |-> HybridLexicon_match(first.matches, second.matches),
               primary_cached |-> p \in DOMAIN _primary._pattern_cache,
               repeated |-> IF match_call = None THEN FALSE ELSE match_call.pattern = p,
               previous |-> IF match_call = None THEN << >>
                            ELSE IF match_call.pattern = p THEN match_call.result
                            ELSE << >>,
               stale |-> FALSE]
        /\ UNCHANGED <<builder_vars, build_vars, solver_vars, generate_vars,
                       numbering_vars>>

\* A HybridLexicon constructed over a list of fallback words.
InitLexicon ==
    /\ BuilderIdle
    /\ SolverIdle
    /\ request = None
    /\ attempt = 0
    /\ gen_pc = "idle"
    /\ last_outcome = None
    /\ gen_result = None
    /\ assign_grid = << >>
    /\ assign_pc = "idle"
    /\ _primary = MemoryLexicon(<< >>)
    /\ \E words \in WordArgs : _fallback = MemoryLexicon(words)
    /\ match_call = None

NextLexicon ==
    \/ add_words
    \/ add_fallback_words
    \/ set_primary_words
    \/ HybridMatch

SpecLexicon == InitLexicon /\ [][NextLexicon]_vars

\* ------------------------------------------------------------------------
\* Properties of GridBuilder.build
\* ------------------------------------------------------------------------

\* The cells a placed word occupies, and the cell of its letter i.
CellOf(pw, i) == <<pw.row + dr(pw.direction) * i, pw.col + dc(pw.direction) * i>>
CellsOf(pw) == {CellOf(pw, i) : i \in 0..(Len(pw.word) - 1)}

\* The working-grid cell (r, c) is outside the array or empty.
OutOrEmpty(r, c) ==
    \/ r < 0 \/ r >= max_rows \/ c < 0 \/ c >= max_cols
    \/ grid[r][c] = "."

SharedWithPerpendicular(pw, cell) ==
    \E k \in 1..Len(placed) :
        placed[k].direction # pw.direction /\ cell \in CellsOf(placed[k])

\* The adjacency rule for one placed word on the working grid: the cells
\* before its first and after its last letter are out-of-grid or empty, and
\* at every interior cell that no perpendicular placed word shares, the two
\* perpendicular neighbours are out-of-grid or empty.
AdjacencyRule(pw) ==
    LET n == Len(pw.word)
        d == pw.direction
    IN  /\ OutOrEmpty(pw.row - dr(d), pw.col - dc(d))
        /\ OutOrEmpty(pw.row + dr(d) * n, pw.col + dc(d) * n)
        /\ \A i \in 1..(n - 2) :
              LET cell == CellOf(pw, i)
              IN  ~SharedWithPerpendicular(pw, cell) =>
                     /\ OutOrEmpty(cell[1] - dc(d), cell[2] - dr(d))
                     /\ OutOrEmpty(cell[1] + dc(d), cell[2] + dr(d))

\* C1: when build returns, every placed word (seed, greedy or gap fill)
\* satisfies the adjacency rule on the working grid.
C1_AdjacencyRuleHolds ==
    pc = "done" => \A k \in 1..Len(placed) : AdjacencyRule(placed[k])

\* The answers of the entries read from the returned grid.
EntryAnswers(g) == _extract_answers(g, _discover_slots(g))

\* C2: for a successful build the entries read from the returned grid have
\* exactly the placed words as answers.
C2_EntriesArePlacedWords ==
    (pc = "done" /\ result.success) =>
        LET a == EntryAnswers(result.grid)
        IN  {a[key].answer : key \in DOMAIN a} = Range(result.words)

\* Every placed word reads back from the working grid at its recorded place.
ReadsBack(pw) ==
    \A i \in 0..(Len(pw.word) - 1) :
        grid[CellOf(pw, i)[1]][CellOf(pw, i)[2]] = pw.word[i + 1]

\* C3: within one build no step changes a working-grid cell that holds a
\* letter, and every placed word can be read back from the grid.
C3_LetterNeverOverwritten ==
    /\ [][pc' # "start" =>
            \A r \in DOMAIN grid : \A c \in DOMAIN grid[r] :
                grid[r][c] # "." => grid'[r][c] = grid[r][c]]_vars
    /\ [](\A k \in 1..Len(placed) : ReadsBack(placed[k]))

\* A finished build in which a later word was written across the letter of
\* an earlier one.
C3_Witness ==
    /\ pc = "done"
    /\ \E k1 \in 1..Len(placed) : \E k2 \in (k1 + 1)..Len(placed) :
           CellsOf(placed[k1]) \cap CellsOf(placed[k2]) # {}

\* C4: in the grid of a successful build no two entries have the same answer.
C4_AnswersDistinct ==
    (pc = "done" /\ result.success) =>
        LET a == EntryAnswers(result.grid)
        IN  \A k1 \in DOMAIN a : \A k2 \in DOMAIN a :
                k1 # k2 => a[k1].answer # a[k2].answer

\* C5: the placed list of a build on a fresh builder never holds the same
\* word string twice.
C5_PlacedWordsUnique ==
    \A i \in 1..Len(placed) : \A j \in 1..Len(placed) :
        i # j => placed[i].word # placed[j].word

\* A finished build whose candidate list repeats a word and names a word of
\* the built-in vocabulary, which was placed, with gap-fill words.
C5_Witness ==
    /\ pc = "done"
    /\ \E i \in 1..Len(candidates) : \E j \in (i + 1)..Len(candidates) :
           candidates[i] = candidates[j]
    /\ \E i \in 1..Len(candidates) :
           candidates[i] \in Range(common_short) /\ candidates[i] \in used_words
    /\ placed_count >= 2
    /\ passes >= 1

\* C6: every letter of the working grid lies in rows 1..target_rows-2 and
\* columns 1..target_cols-2 of an array of target_rows+1 by target_cols+1
\* cells, target_rows = max(max_rows, 7), target_cols = max(max_cols, 7).
C6_LettersInsideBorder ==
    /\ target_rows = Max(config.max_rows, 7)
    /\ target_cols = Max(config.max_cols, 7)
    /\ grid # << >> =>
          /\ DOMAIN grid = 0..target_rows
          /\ \A r \in DOMAIN grid :
                /\ DOMAIN grid[r] = 0..target_cols
                /\ \A c \in DOMAIN grid[r] :
                      grid[r][c] # "." =>
                          /\ 1 <= r /\ r <= target_rows - 2
                          /\ 1 <= c /\ c <= target_cols - 2

\* A finished build with letters on the first allowed row and on the last
\* allowed column.
C6_Witness ==
    /\ pc = "done"
    /\ \E c \in DOMAIN grid[1] : grid[1][c] # "."
    /\ \E r \in DOMAIN grid : grid[r][target_cols - 2] # "."

\* C7: build returns success exactly when at least 8 words were placed in
\* total, and a sparse build too comes back as a BuildResult that lists every
\* placed word; the loops that lead to the return stay inside their bounds.
C7_SuccessIffEightPlaced ==
    /\ pc = "done" =>
          /\ result # None
          /\ result.success = (Len(placed) >= 8)
          /\ Len(result.words) = Len(placed)
    /\ pc # "done" => result = None
    /\ passes <= 10
    /\ failures <= max_failures
    /\ placed_count <= Len(placed)

\* A sparse build, one word short of success, reported by the result.
C7_Witness ==
    pc = "done" /\ Len(placed) = 7 /\ result.success = FALSE

\* C8: two fresh builders with the same configuration and candidate list
\* return the same words in the same order and the same trimmed grid.
C8_SameInputSameResult ==
    (pc = "done" /\ prev # None /\ prev.config = config
         /\ prev.candidates = candidates) =>
        /\ result.words = prev.result.words
        /\ result.grid = prev.result.grid

\* The second of two builders with the same configuration has returned a
\* grid holding words of all three phases.
C8_Witness ==
    /\ pc = "done" /\ prev # None
    /\ prev.config = config /\ prev.candidates = candidates
    /\ placed_count >= 3
    /\ passes >= 1

\* The tight bounding box of the letters of the working grid.
LetterRows == {r \in DOMAIN grid : \E c \in DOMAIN grid[r] : grid[r][c] # "."}
LetterCols == {c \in 0..(max_cols - 1) : \E r \in DOMAIN grid : grid[r][c] # "."}
Least(S) == CHOOSE x \in S : \A y \in S : x <= y
Greatest(S) == CHOOSE x \in S : \A y \in S : x >= y

\* C9: when a word was placed, the returned grid is the working grid cut to
\* the tight bounding box of the letters, widened by one row and column on
\* every side the working array has; letters become LETTER cells with that
\* solution, all other cells BLOCK cells, and both kinds occur.
C9_TemplateIsPaddedBoundingBox ==
    (pc = "done" /\ placed # << >>) =>
        LET r0 == Max(Least(LetterRows) - 1, 0)
            r1 == Min(Greatest(LetterRows) + 1, max_rows - 1)
            c0 == Max(Least(LetterCols) - 1, 0)
            c1 == Min(Greatest(LetterCols) + 1, max_cols - 1)
            g == result.grid
        IN  /\ DOMAIN g = 0..(r1 - r0)
            /\ \A i \in DOMAIN g :
                  /\ DOMAIN g[i] = 0..(c1 - c0)
                  /\ \A j \in DOMAIN g[i] :
                        IF grid[r0 + i][c0 + j] # "."
                        THEN g[i][j].type = LETTER
                             /\ g[i][j].solution = grid[r0 + i][c0 + j]
                        ELSE g[i][j].type = BLOCK
            /\ \E i \in DOMAIN g : \E j \in DOMAIN g[i] : g[i][j].type = LETTER
            /\ \E i \in DOMAIN g : \E j \in DOMAIN g[i] : g[i][j].type = BLOCK

\* A returned grid smaller than the working array, cut around placed words.
C9_Witness ==
    /\ pc = "done" /\ Len(placed) >= 2
    /\ GridRows(result.grid) < max_rows
    /\ GridCols(result.grid) < max_cols

\* ------------------------------------------------------------------------
\* Properties of Solver.solve
\* ------------------------------------------------------------------------

\* The word the returned assignment gives slot k of the discovered slots.
Assigned(k) == solve_result.words[slots[k].id]

\* Slot k got a lexicon word of the slot's length that carries, at every cell
\* for which the input grid has a solution, that solution.
MatchesInputPattern(k) ==
    /\ Assigned(k) \in lexicon
    /\ Len(Assigned(k)) = slots[k].length
    /\ \A i \in 0..(slots[k].length - 1) :
          LET cell == solve_grid[SlotCell(slots[k], i)[1]][SlotCell(slots[k], i)[2]]
          IN  cell.solution # NoLetter => Assigned(k)[i + 1] = cell.solution

\* The words of slots k1 and k2 agree at every cell both slots run through.
AgreeWhereShared(k1, k2) ==
    \A i1 \in 0..(slots[k1].length - 1) : \A i2 \in 0..(slots[k2].length - 1) :
        SlotCell(slots[k1], i1) = SlotCell(slots[k2], i2) =>
            Assigned(k1)[i1 + 1] = Assigned(k2)[i2 + 1]

\* C10: when solve returns success, every slot has a lexicon word matching
\* its pattern in the input grid, the words of two slots carry the same
\* letter at every cell they share, and with more than one slot all words
\* are pairwise distinct.
C10_SolutionIsConsistent ==
    (solve_pc = "done" /\ solve_result.success) =>
        /\ DOMAIN solve_result.words = {slots[k].id : k \in 1..Len(slots)}
        /\ \A k \in 1..Len(slots) : MatchesInputPattern(k)
        /\ \A k1 \in 1..Len(slots) : \A k2 \in 1..Len(slots) :
              k1 # k2 => AgreeWhereShared(k1, k2)
        /\ Len(slots) > 1 =>
              \A k1 \in 1..Len(slots) : \A k2 \in 1..Len(slots) :
                  k1 # k2 => Assigned(k1) # Assigned(k2)

\* A successful solve of a grid with a given letter, three slots or more and
\* two slots that cross.
C10_Witness ==
    /\ solve_pc = "done" /\ solve_result.success
    /\ Len(slots) >= 3
    /\ crossings # << >>
    /\ solve_grid[0][0].solution # NoLetter

\* C11: when solve returns success, the returned grid has the dimensions and
\* the cell types of the input grid, every letter cell that was empty in the
\* input carries a solution, and every block cell and every letter given in
\* the input is as it was.
C11_FilledGridCompletesInput ==
    (solve_pc = "done" /\ solve_result.success) =>
        LET filled == solve_result.grid
        IN  /\ DOMAIN filled = DOMAIN solve_grid
            /\ \A r \in DOMAIN solve_grid :
                  /\ DOMAIN filled[r] = DOMAIN solve_grid[r]
                  /\ \A c \in DOMAIN solve_grid[r] :
                        /\ filled[r][c].type = solve_grid[r][c].type
                        /\ (is_letter(solve_grid[r][c])
                              /\ solve_grid[r][c].solution = NoLetter)
                               => filled[r][c].solution # NoLetter
                        /\ solve_grid[r][c].solution # NoLetter
                               => filled[r][c].solution = solve_grid[r][c].solution
                        /\ ~is_letter(solve_grid[r][c])
                               => filled[r][c] = solve_grid[r][c]

\* The first slot, in emission order, whose pattern matches no lexicon word
\* (0 when every slot has a word).
FirstEmptyDomain ==
    LET empty == {k \in 1..Len(slots) : match(pattern(slots[k], solve_grid)) = {}}
    IN  IF empty = {} THEN 0 ELSE CHOOSE k \in empty : \A k2 \in empty : k <= k2

\* C12: when the pattern of a slot matches no lexicon word, solve returns
\* success = false with the error naming the identifier and the pattern of
\* the first such slot, no grid and no assignment, and it returns from the
\* variable loop at that slot: the search was not started.
C12_EmptyDomainFailsAtOnce ==
    (solve_pc = "done" /\ FirstEmptyDomain # 0) =>
        LET slot == slots[FirstEmptyDomain]
        IN  /\ solve_result.success = FALSE
            /\ solve_result.error.values = <<slot.id, pattern(slot, solve_grid)>>
            /\ solve_result.error.text
                  = "No words found for slot {slot.id} with pattern '{pattern}'"
            /\ solve_result.grid = << >>
            /\ solve_result.words = << >>
            /\ Len(problem) = FirstEmptyDomain - 1

\* solve has returned at a slot without words that is not the first slot,
\* with a later slot that has no word either.
C12_Witness ==
    /\ solve_pc = "done"
    /\ FirstEmptyDomain >= 2
    /\ \E k \in (FirstEmptyDomain + 1)..Len(slots) :
           match(pattern(slots[k], solve_grid)) = {}

\* Two different slots that run through a common cell.
Conflicting(k1, k2) ==
    /\ k1 # k2
    /\ \E i1 \in 0..(slots[k1].length - 1) : \E i2 \in 0..(slots[k2].length - 1) :
           SlotCell(slots[k1], i1) = SlotCell(slots[k2], i2)

\* C13: when every slot has words but no assignment satisfies the
\* constraints, solve returns success = false with an error that carries
\* the identifiers of two slots that conflict.
C13_UnsatisfiableNamesBothSlots ==
    (solve_pc = "done" /\ slots # << >> /\ Len(problem) = Len(slots)
         /\ getSolution = {}) =>
        /\ solve_result.success = FALSE
        /\ \E k1 \in 1..Len(slots) : \E k2 \in 1..Len(slots) :
              /\ Conflicting(k1, k2)
              /\ \E n \in 1..Len(solve_result.error.values) :
                     solve_result.error.values[n] = slots[k1].id
              /\ \E n \in 1..Len(solve_result.error.values) :
                     solve_result.error.values[n] = slots[k2].id

\* ------------------------------------------------------------------------
\* Properties of Orchestrator._assign_numbers
\* ------------------------------------------------------------------------

\* The cells of a grid that carry a number, and the start cells of its slots.
NumberedCells(g) ==
    {rc \in (0..(GridRows(g) - 1)) \X (0..(GridCols(g) - 1)) : g[rc[1]][rc[2]].number # 0}
StartCells(g) ==
    LET found == _discover_slots(g)
    IN  {<<found[k].row, found[k].col>> : k \in 1..Len(found)}

\* C14: after _assign_numbers the numbered cells are exactly the start cells
\* of the slots of the grid; their numbers are 1, 2, 3, ... without gap or
\* repetition, increasing in row-major order, one number for a cell that
\* starts an across and a down entry.
C14_NumbersFollowScanOrder ==
    assign_pc = "done" =>
        LET g == assign_grid
            numbered == NumberedCells(g)
        IN  /\ numbered = StartCells(g)
            /\ {g[rc[1]][rc[2]].number : rc \in numbered} = 1..Cardinality(numbered)
            /\ \A a \in numbered : \A b \in numbered :
                  (a[1] < b[1] \/ (a[1] = b[1] /\ a[2] < b[2]))
                      => g[a[1]][a[2]].number < g[b[1]][b[2]].number

\* A numbered grid with a cell that starts an across and a down entry,
\* three numbers or more, and a letter cell that starts nothing although no
\* letter cell comes before it in its row or column.
C14_Witness ==
    /\ assign_pc = "done"
    /\ Cardinality(NumberedCells(assign_grid)) >= 3
    /\ \E k1 \in 1..Len(_discover_slots(assign_grid)) :
       \E k2 \in 1..Len(_discover_slots(assign_grid)) :
           LET found == _discover_slots(assign_grid)
           IN  /\ found[k1].direction = ACROSS /\ found[k2].direction = DOWN
               /\ found[k1].row = found[k2].row /\ found[k1].col = found[k2].col
    /\ \E r \in NumberingRows : \E c \in NumberingCols :
           /\ is_letter(assign_grid[r][c])
           /\ assign_grid[r][c].number = 0
           /\ r = 0 \/ ~is_letter(assign_grid[r - 1][c])
           /\ c = 0 \/ ~is_letter(assign_grid[r][c - 1])

\* ------------------------------------------------------------------------
\* Properties of Orchestrator.generate
\* ------------------------------------------------------------------------

\* The entries of a puzzle: its across and its down clues.
Entries(puzzle) == Range(puzzle.clues.across) \cup Range(puzzle.clues.down)

\* C15: in the puzzle of a successful generation every across and down
\* entry has the number stored on the grid cell at its start position, and
\* that number is at least 1.
C15_EntriesCarryCellNumber ==
    (gen_pc = "returned" /\ gen_result.success) =>
        LET puzzle == gen_result.bundle.puzzle
        IN  \A clue \in Entries(puzzle) :
                /\ clue.number = puzzle.grid[clue.start.row][clue.start.col].number
                /\ clue.number >= 1

\* The error of the latest attempt: the message of the exception it raised
\* or the error of the result it returned.
LastError ==
    IF last_outcome.raised THEN str(last_outcome.exception)
    ELSE last_outcome.result.error

\* C16: when generate returns after max_attempts unsuccessful attempts, the
\* failure result has no bundle and carries the error of the last attempt,
\* whether that attempt raised or returned an unsuccessful result.
C16_FailureCarriesLastError ==
    (gen_pc = "returned" /\ ~gen_result.success /\ attempt >= 1) =>
        /\ attempt = request.max_attempts
        /\ gen_result.bundle = None
        /\ gen_result.error = LastError

\* How far generate is from its return, as three numbers compared in
\* lexical order: attempts and loop heads still ahead, phases of build still
\* ahead, and iterations the current loop of build can still make.
AttemptsAhead ==
    IF gen_pc = "returned" THEN 0
    ELSE 2 * (request.max_attempts - attempt) + (IF gen_pc = "build" THEN 2 ELSE 1)
PhasesAhead ==
    CASE pc = "start" -> 5
      [] pc = "seed_horizontal" -> 4
      [] pc = "seed_vertical" -> 3
      [] pc = "main_loop" -> 2
      [] pc = "fill_gaps" -> 1
      [] OTHER -> 0
IterationsAhead ==
    CASE pc = "main_loop" -> Len(selected) * (max_failures + 1) + (max_failures - failures)
      [] pc = "fill_gaps" -> 10 - passes
      [] OTHER -> 0

\* C17: attempts run one after another, never more than max_attempts; the
\* result of the first successful attempt is returned and no other attempt
\* starts; generate is never left by an exception: it is at the loop head,
\* inside an attempt or has returned a GenerateResult; every step brings the
\* return nearer, and after the return no step follows.
C17_AttemptsThenResult ==
    /\ [](gen_pc \in {"loop", "build", "returned"})
    /\ [](gen_pc = "build" =>
             pc \in {"start", "seed_horizontal", "seed_vertical", "main_loop",
                     "fill_gaps", "done"})
    /\ [](AttemptsAhead >= 0 /\ IterationsAhead >= 0)
    /\ [][\/ AttemptsAhead' < AttemptsAhead
          \/ /\ AttemptsAhead' = AttemptsAhead
             /\ \/ PhasesAhead' < PhasesAhead
                \/ /\ PhasesAhead' = PhasesAhead
                   /\ IterationsAhead' < IterationsAhead]_vars
    /\ [](attempt <= request.max_attempts)
    /\ []((gen_pc = "returned") <=> (gen_result # None))
    /\ [](gen_pc = "build" => attempt >= 1)
    /\ [][attempt' # attempt => (gen_pc = "loop" /\ attempt' = attempt + 1)]_vars
    /\ [][(gen_pc = "build" /\ gen_pc' # "build" /\ ~last_outcome'.raised
              /\ last_outcome'.result.success)
            => (gen_pc' = "returned" /\ gen_result' = last_outcome'.result)]_vars
    /\ [][(last_outcome' # last_outcome /\ last_outcome'.raised)
            => IF attempt' = request.max_attempts
               THEN gen_pc' = "returned" /\ gen_result'.success = FALSE
                    /\ gen_result'.error = str(last_outcome'.exception)
               ELSE gen_pc' = "loop"]_vars
    /\ [][gen_pc = "returned" => UNCHANGED vars]_vars

\* generate has returned the result of its second attempt, a success, with
\* a third attempt allowed that was not made.
C17_Witness ==
    /\ gen_pc = "returned"
    /\ gen_result.success
    /\ attempt = 2
    /\ request.max_attempts = 3

\* C18: when build has returned with failure or with a grid that has an
\* unfilled letter cell, the attempt goes on to the slot solver, and an
\* attempt returns an unsuccessful result only after a failed solver run.
C18_SolverFollowsFailedBuild ==
    /\ [][(gen_pc = "build" /\ pc = "done" /\ gen_pc' # "build"
              /\ (~result.success \/ has_unfilled(result.grid)))
            => gen_pc' = "solve"]_vars
    /\ []((last_outcome # None /\ ~last_outcome.raised
              /\ ~last_outcome.result.success)
            => (solve_pc = "done" /\ ~solve_result.success))

\* ------------------------------------------------------------------------
\* Properties of MemoryLexicon and HybridLexicon
\* ------------------------------------------------------------------------

\* The words of a word set that a pattern matches, evaluated without cache.
Uncached(words, p) ==
    {w \in words : Len(w) = Len(p) /\ \A k \in 1..Len(p) : p[k] = "." \/ p[k] = w[k]}

\* Every list memoised in a MemoryLexicon holds the words an uncached
\* evaluation over the current word set gives.
CacheIsCurrent(lex) ==
    \A p \in DOMAIN lex._pattern_cache :
        Range(lex._pattern_cache[p]) = Uncached(lex._words, p)

\* C19: through any interleaving of add_words and match calls on a
\* MemoryLexicon (each tier of the HybridLexicon is one), the list match has
\* just returned holds the words an uncached evaluation over the current
\* word set gives, and no memoised list is out of date.
C19_MatchIgnoresOutdatedCache ==
    /\ CacheIsCurrent(_primary)
    /\ CacheIsCurrent(_fallback)
    /\ (match_call # None /\ ~match_call.stale) =>
          /\ Range(match_call.primary_matches)
                = Uncached(_primary._words, match_call.pattern)
          /\ Range(match_call.fallback_matches)
                = Uncached(_fallback._words, match_call.pattern)

\* match has answered a pattern it had answered in the call before, with a
\* different result: words were added in between, and the primary tier had
\* memoised the pattern again by the time of this call.
C19_Witness ==
    /\ match_call # None
    /\ ~match_call.stale
    /\ match_call.repeated
    /\ match_call.primary_cached
    /\ match_call.primary_matches # << >>
    /\ Range(match_call.previous) # Range(match_call.result)

\* C20: the list HybridLexicon.match returns starts with the primary tier's
\* matches, goes on with exactly the fallback tier's matches that are not
\* primary matches, has no word twice, and as a set is the union of the two
\* tiers' matches.
C20_PrimaryFirstThenNewFallback ==
    (match_call # None /\ ~match_call.stale) =>
        LET p == match_call.pattern
            res == match_call.result
            primary == Uncached(_primary._words, p)
            fallback == Uncached(_fallback._words, p)
            n == Cardinality(primary)
        IN  /\ Len(res) >= n
            /\ {res[k] : k \in 1..n} = primary
            /\ {res[k] : k \in (n + 1)..Len(res)} = fallback \ primary
            /\ \A i \in 1..Len(res) : \A j \in 1..Len(res) : i # j => res[i] # res[j]
            /\ Range(res) = primary \cup fallback

\* match has returned primary matches followed by a fallback match, with a
\* fallback match left out because the primary tier has it too.
C20_Witness ==
    /\ match_call # None
    /\ ~match_call.stale
    /\ match_call.primary_matches # << >>
    /\ Len(match_call.result) > Len(match_call.primary_matches)
    /\ \E k \in 1..Len(match_call.fallback_matches) :
           match_call.fallback_matches[k] \in Range(match_call.primary_matches)


\* What one tier returned, against the words it stores: every returned word
\* is a stored word of the pattern's length that has the pattern's letter at
\* every position where the pattern has one, every such stored word is
\* returned, and none is returned twice.
ReturnsExactlyTheMatches(returned, stored, p) ==
    /\ \A i \in 1..Len(returned) :
          /\ returned[i] \in stored
          /\ Len(returned[i]) = Len(p)
          /\ \A k \in 1..Len(p) : p[k] # "." => returned[i][k] = p[k]
    /\ \A w \in stored :
          (Len(w) = Len(p) /\ \A k \in 1..Len(p) : p[k] # "." => w[k] = p[k])
              => \E i \in 1..Len(returned) : returned[i] = w
    /\ \A i \in 1..Len(returned) : \A j \in 1..Len(returned) :
          i # j => returned[i] # returned[j]

Tried ==
    UNION {UNION {{<<k, i, n>> : n \in 1..Len(letter_index[selected[k].word[i + 1]])} :
                     i \in 0..(Len(selected[k].word) - 1)} :
              k \in 1..Len(selected)}

\* Where the tried placement t puts its word.
PlaceOf(t) ==
    LET w == selected[t[1]].word
        at == CrossingAt(w, t[2], letter_index[w[t[2] + 1]][t[3]])
    IN  [word |-> w, row |-> at.row, col |-> at.col, direction |-> at.direction]

\* The valid placements of the remaining candidates, and the score of one.
ValidPlacements ==
    {t \in Tried : _can_place(PlaceOf(t).word, PlaceOf(t).row, PlaceOf(t).col,
                              PlaceOf(t).direction)}

ScoreOf(t) ==
    LET p == PlaceOf(t)
    IN  _score_placement([row |-> p.row, col |-> p.col, direction |-> p.direction,
                          crossings |-> _count_crossings(p.word, p.row, p.col, p.direction),
                          expansion |-> 0])

\* t comes before u in the enumeration: candidate order, then letter
\* position, then letter-index entry.
TriedBefore(t, u) ==
    \/ t[1] < u[1]
    \/ t[1] = u[1] /\ t[2] < u[2]
    \/ t[1] = u[1] /\ t[2] = u[2] /\ t[3] < u[3]

\* An iteration of the main loop places a word.
LoopPlaces == pc = "main_loop" /\ Len(placed') = Len(placed) + 1

\* C22: the word an iteration of the main loop places, with its row, column
\* and direction, is a valid placement of a remaining candidate with the
\* greatest score of all valid placements in the current grid, and among
\* those of that score the first one in candidate order, then letter
\* position, then letter-index order.
C22_BestPlacementIsPlaced ==
    [][LoopPlaces =>
          \E t \in ValidPlacements :
              /\ \A u \in ValidPlacements : ScoreOf(u) <= ScoreOf(t)
              /\ \A u \in ValidPlacements :
                     ScoreOf(u) = ScoreOf(t) => ~TriedBefore(u, t)
              /\ placed'[Len(placed')] = PlaceOf(t)]_vars

\* An iteration of the main loop starts on a grid with two words, with valid
\* placements to choose from of which more than one has the greatest score
\* and others have a smaller one.
C22_Witness ==
    /\ pc = "main_loop"
    /\ LoopCondition
    /\ Len(placed) >= 2
    /\ \E t \in ValidPlacements : \E u \in ValidPlacements :
           /\ PlaceOf(t) # PlaceOf(u)
           /\ ScoreOf(t) = ScoreOf(u)
           /\ \A x \in ValidPlacements : ScoreOf(x) <= ScoreOf(t)
    /\ \E t \in ValidPlacements : \E u \in ValidPlacements : ScoreOf(t) < ScoreOf(u)


\* The cells of the word the step appends to placed that held a letter
\* before the step.
CellsCrossed ==
    LET pw == placed'[Len(placed')]
    IN  {i \in 0..(Len(pw.word) - 1) : grid[CellOf(pw, i)[1]][CellOf(pw, i)[2]] # "."}

\* C23: within one build on a fresh builder the main loop never makes a
\* placement with zero crossings: every word it places has a cell that held
\* a letter, the word's own letter at that place, when it was placed.
C23_LoopPlacementsCross ==
    [][LoopPlaces =>
          /\ CellsCrossed # {}
          /\ \A i \in CellsCrossed :
                LET pw == placed'[Len(placed')]
                IN  grid[CellOf(pw, i)[1]][CellOf(pw, i)[2]] = pw.word[i + 1]]_vars

\* The main loop has placed the third word of a build, after two seed words,
\* across a letter of an earlier word, and the grid has room for a word that
\* touches no other.
C23_Witness ==
    /\ pc = "main_loop"
    /\ Len(placed) = 3
    /\ placed_count = 3
    /\ \E k \in 1..2 : CellsOf(placed[k]) \cap CellsOf(placed[3]) # {}
    /\ \E r \in 1..(target_rows - 2) : \A c \in DOMAIN grid[r] :
           grid[r - 1][c] = "." /\ grid[r][c] = "." /\ grid[r + 1][c] = "."

\* C24: the main loop is left only when no candidate remains, more than 20
\* words are placed or the failure budget is used up, and an iteration
\* that starts with 20 or fewer placed words and a valid placement of a
\* remaining candidate places a word.
C24_LoopStopsOnlyAsStated ==
    [][/\ (pc = "main_loop" /\ pc' = "fill_gaps") =>
              (selected = << >> \/ Len(placed) > 20 \/ failures >= max_failures)
       /\ (pc = "main_loop" /\ Len(placed) <= 20 /\ ValidPlacements # {}) => LoopPlaces]_vars

\* The result of a build that placed nothing: no word, the grid [[]].
EmptyBuildResult ==
    [grid |-> [i \in {0} |-> << >>], words |-> << >>, success |-> FALSE]

\* C25: when the seed phase has placed no word, the build goes on to its
\* end and places nothing: every iteration of the main loop is a failed
\* one within the failure budget, gap fill places no word, and the result
\* is success = false with no word and the grid [[]]. A selected list
\* without a word of 5 to 7 letters leaves the seed phase with no word.
C25_NoSeedNothingPlaced ==
    [][/\ (pc \in {"main_loop", "fill_gaps"} /\ placed = << >>) =>
              /\ placed' = << >>
              /\ (pc' = "main_loop" => failures' = failures + 1 /\ failures' <= max_failures)
              /\ (pc' = "done" => result' = EmptyBuildResult)
       /\ (/\ pc = "seed_horizontal"
           /\ \A i \in 1..Len(selected) : Len(selected[i].word) \notin 5..7) =>
              (pc' = "main_loop" /\ placed' = << >>)]_vars

\* A finished build of a list with a word of 5 to 7 letters that the
\* centre check kept out: nothing is placed after the main loop has used
\* up its failure budget.
C25_Witness ==
    /\ pc = "done"
    /\ placed = << >>
    /\ \E i \in 1..Len(candidates) : Len(candidates[i]) \in 5..7
    /\ failures = max_failures
    /\ failures > 0
    /\ result = EmptyBuildResult

\* C26: before gap fill, two placed words that have a cell in common have
\* different directions.
C26_SameDirectionWordsShareNoCell ==
    pc \in {"seed_vertical", "main_loop"} =>
        \A a \in 1..Len(placed) : \A b \in 1..Len(placed) :
            (a # b /\ CellsOf(placed[a]) \cap CellsOf(placed[b]) # {}) =>
                placed[a].direction # placed[b].direction

\* C27: a second call of build with the same candidates on the same
\* GridBuilder returns the placed words and the grid that the call on the
\* fresh builder returned.
C27_SecondBuildAsOnFreshBuilder ==
    (pc = "done" /\ prev # None) =>
        /\ result.words = prev.result.words
        /\ result.grid = prev.result.grid

\* C28: a pass of gap fill places exactly one word and the loop goes on,
\* or it places none and the loop is over; no more than 10 passes are made,
\* and gap fill has added as many words as it has made placing passes, so
\* no more than 10.
C28_GapFillOneWordPerPass ==
    [][pc = "fill_gaps" =>
          /\ \/ /\ Len(placed') = Len(placed) + 1
                /\ passes' = passes + 1
                /\ pc' = "fill_gaps"
             \/ /\ placed' = placed
                /\ passes' = passes
                /\ pc' = "done"
          /\ passes' <= 10
          /\ Len(placed') - placed_count' = passes']_vars

\* A build whose gap fill has made its ten passes, a word placed in each,
\* and returned with a gap left that a word would still fill.
C28_Witness ==
    /\ pc = "done"
    /\ passes = 10
    /\ Len(placed) = placed_count + 10
    /\ FirstFill(_find_gaps, 1) # None

\* C29: two fresh builders with the same max_rows and max_cols and
\* different seeds return the same placed words and the same grid for the
\* same candidate list.
C29_ResultIndependentOfSeed ==
    (/\ pc = "done"
     /\ prev # None
     /\ prev.config.seed # config.seed
     /\ prev.config.max_rows = config.max_rows
     /\ prev.config.max_cols = config.max_cols
     /\ prev.candidates = candidates) =>
        /\ result.words = prev.result.words
        /\ result.grid = prev.result.grid

\* The retry with the next seed has finished a build that placed words in
\* all three phases, as the build with the first seed did.
C29_Witness ==
    /\ pc = "done"
    /\ prev # None
    /\ prev.config.seed # config.seed
    /\ prev.candidates = candidates
    /\ Len(placed) > placed_count
    /\ placed_count >= 3
    /\ result = prev.result

\* The first selected word of 5 to 7 letters, None when there is none.
FirstSeedWord ==
    LET long == {i \in 1..Len(selected) :
                    5 <= Len(selected[i].word) /\ Len(selected[i].word) <= 7}
    IN  IF long = {} THEN None
        ELSE selected[CHOOSE i \in long : \A j \in long : i <= j].word

\* The crossings of the horizontal seed word at which _can_place accepts a
\* selected word of 4 to 6 letters going down.
VerticalSeedsCanPlace ==
    {t \in UNION {UNION {{<<i, j, k>> : k \in 0..(Len(horz.word) - 1)} :
                            j \in 0..(Len(selected[i].word) - 1)} :
                     i \in 1..Len(selected)} :
        LET w == selected[t[1]].word
        IN  /\ 4 <= Len(w) /\ Len(w) <= 6
            /\ w[t[2] + 1] = horz.word[t[3] + 1]
            /\ _can_place(w, horz.row - t[2], horz.col + t[3], DOWN)}

\* C30: the seed phase places the first selected word of 5 to 7 letters
\* across the centre row at column centre_col - len // 2 exactly when
\* _can_place accepts that placement on the empty grid, and it places a
\* vertical seed word exactly when _can_place accepts a selected word of
\* 4 to 6 letters down through a letter of the horizontal one.
C30_SeedBoundsAsCanPlace ==
    [][/\ (pc = "seed_horizontal" /\ FirstSeedWord # None) =>
              (Len(placed') = Len(placed) + 1
                  <=> _can_place(FirstSeedWord, target_rows \div 2,
                                 (target_cols \div 2) - (Len(FirstSeedWord) \div 2),
                                 ACROSS))
       /\ pc = "seed_vertical" =>
              (Len(placed') = Len(placed) + 1 <=> VerticalSeedsCanPlace # {})]_vars
====
